---- MODULE Spec2Model ----
(***************************************************************************)
(* RecyConnect backend: registration -> OTP -> KYC/OCR verification        *)
(* pipeline (authController, otpService, ocrService, kycController,        *)
(* userController, adminController) over the Prisma data store.            *)
(*                                                                         *)
(* Strings that the code inspects character by character (OCR text, CNIC   *)
(* and NTN numbers) are sequences of one-character strings; the null       *)
(* string/number is the empty sequence.  Other strings are TLA+ strings,   *)
(* with NullStr for null/undefined.  Row ids are positive integers, 0 is   *)
(* "no row".                                                               *)
(***************************************************************************)
EXTENDS Integers, Sequences, FiniteSets, TLC

\* ------------------------------------------------------------- bounds
MaxUsers == 1        \* registered rows of the User table (the admin row apart)
MaxOtps == 2         \* codes ever issued (Otp.id is serial)
MaxTime == 16        \* last minute of the modelled clock
MaxLogs == 2         \* rows of the ActivityLog table

\* ------------------------------------------------------------- constants
OTP_TTL_MINUTES == 15

\* minutes the clock advances by in one step: a code outlives one step, not two
TickStep == (OTP_TTL_MINUTES \div 2) + 1

NullStr == "null"
NoUser == 0
NoCnic == <<>>

UserRole == [INDIVIDUAL |-> "individual", WAREHOUSE |-> "warehouse",
             COMPANY |-> "company", COLLECTOR |-> "collector", ADMIN |-> "admin"]

VerificationStatus == [PENDING |-> "PENDING", VERIFIED |-> "VERIFIED",
                       REJECTED |-> "REJECTED", BLOCKED |-> "BLOCKED",
                       SUSPENDED |-> "SUSPENDED"]

KycStage == [REGISTERED |-> "REGISTERED", DOCUMENTS_UPLOADED |-> "DOCUMENTS_UPLOADED",
             VERIFIED |-> "VERIFIED"]

\* ------------------------------------------------------------- characters
Digits == {"0", "1", "2", "3", "4", "5", "6", "7", "8", "9"}
Letters == {"x", "N"}

IsDigit(c) == c \in Digits
\* \w of a JavaScript regular expression
IsWordChar(c) == c \in Digits \cup Letters \cup {"_"}
\* \s of a JavaScript regular expression (the alphabet holds only the space)
IsSpace(c) == c = " "

\* \b at the gap before position i (1-based) of text
WordBoundary(text, i) ==
  LET left == i > 1 /\ i - 1 <= Len(text) /\ IsWordChar(text[i - 1])
      right == i >= 1 /\ i <= Len(text) /\ IsWordChar(text[i])
  IN left # right

\* \d{n} at position i: the position after the run, or 0 when it does not match
MatchDigits(text, i, n) ==
  IF i = 0 \/ i + n - 1 > Len(text) THEN 0
  ELSE IF \A k \in i..(i + n - 1) : IsDigit(text[k]) THEN i + n ELSE 0

\* -? at position i (greedy; what follows is never a hyphen, so no backtracking)
MatchOptHyphen(text, i) ==
  IF i = 0 THEN 0
  ELSE IF i <= Len(text) /\ text[i] = "-" THEN i + 1 ELSE i

\* \s* at position i (greedy; what follows is never a space)
RECURSIVE MatchSpaces(_, _)
MatchSpaces(text, i) ==
  IF i = 0 THEN 0
  ELSE IF i <= Len(text) /\ IsSpace(text[i]) THEN MatchSpaces(text, i + 1) ELSE i

MatchEndBoundary(text, i) ==
  IF i = 0 THEN 0 ELSE IF WordBoundary(text, i) THEN i ELSE 0

\* /\b\d{5}-?\d{7}-?\d{1}\b/ anchored at i
MatchCnicStandard(text, i) ==
  IF ~WordBoundary(text, i) THEN 0
  ELSE MatchEndBoundary(text,
         MatchDigits(text,
           MatchOptHyphen(text,
             MatchDigits(text,
               MatchOptHyphen(text,
                 MatchDigits(text, i, 5)), 7)), 1))

\* /\b\d{5}\s*-?\s*\d{7}\s*-?\s*\d{1}\b/ anchored at i
MatchCnicSpaces(text, i) ==
  IF ~WordBoundary(text, i) THEN 0
  ELSE MatchEndBoundary(text,
         MatchDigits(text,
           MatchSpaces(text, MatchOptHyphen(text, MatchSpaces(text,
             MatchDigits(text,
               MatchSpaces(text, MatchOptHyphen(text, MatchSpaces(text,
                 MatchDigits(text, i, 5)))), 7)))), 1))

\* /\b\d{13}\b/ anchored at i
MatchCnicPlain(text, i) ==
  IF ~WordBoundary(text, i) THEN 0
  ELSE MatchEndBoundary(text, MatchDigits(text, i, 13))

\* /\b\d{7}-?\d{1}\b/ anchored at i
MatchNtn(text, i) ==
  IF ~WordBoundary(text, i) THEN 0
  ELSE MatchEndBoundary(text,
         MatchDigits(text, MatchOptHyphen(text, MatchDigits(text, i, 7)), 1))

Substring(text, from, to) == [k \in 1..(to - from) |-> text[from + k - 1]]

\* str.replace(/\D/g, '')
RECURSIVE StripNonDigits(_)
StripNonDigits(s) ==
  IF s = <<>> THEN <<>>
  ELSE IF IsDigit(Head(s)) THEN <<Head(s)>> \o StripNonDigits(Tail(s))
  ELSE StripNonDigits(Tail(s))

\* str.replace(/-/g, '')
RECURSIVE StripHyphens(_)
StripHyphens(s) ==
  IF s = <<>> THEN <<>>
  ELSE IF Head(s) = "-" THEN StripHyphens(Tail(s))
  ELSE <<Head(s)>> \o StripHyphens(Tail(s))

\* text.match(pattern)[0] for the three CNIC patterns ("std", "spaces", "plain")
\* and the NTN pattern: the leftmost match, or <<>> when there is none
MatchAt(pattern, text, i) ==
  CASE pattern = "std" -> MatchCnicStandard(text, i)
    [] pattern = "spaces" -> MatchCnicSpaces(text, i)
    [] pattern = "plain" -> MatchCnicPlain(text, i)
    [] pattern = "ntn" -> MatchNtn(text, i)

HasMatch(pattern, text) == \E i \in 1..Len(text) : MatchAt(pattern, text, i) # 0

FirstMatch(pattern, text) ==
  LET starts == {i \in 1..Len(text) : MatchAt(pattern, text, i) # 0}
      i0 == CHOOSE i \in starts : \A j \in starts : i <= j
  IN Substring(text, i0, MatchAt(pattern, text, i0))

FormatCnic(digits) ==
  SubSeq(digits, 1, 5) \o <<"-">> \o SubSeq(digits, 6, 12) \o <<"-">> \o SubSeq(digits, 13, 13)

\* the pattern list reduced to its first pattern
CnicPatterns_StandardOnly == <<"std">>

\* extractCNIC: patterns, tried in order
CnicPatterns == <<"std", "spaces", "plain">>

RECURSIVE extractCNICFrom(_, _)
extractCNICFrom(text, p) ==
  IF p > Len(CnicPatterns) THEN NoCnic
  ELSE IF HasMatch(CnicPatterns[p], text)
          /\ Len(StripNonDigits(FirstMatch(CnicPatterns[p], text))) = 13
       THEN FormatCnic(StripNonDigits(FirstMatch(CnicPatterns[p], text)))
       ELSE extractCNICFrom(text, p + 1)

extractCNIC(text) == extractCNICFrom(text, 1)

extractNTN(text) ==
  IF HasMatch("ntn", text) THEN StripHyphens(FirstMatch("ntn", text)) ELSE <<>>

validateCnicFormat(cnic) ==
  IF cnic = NoCnic THEN FALSE
  ELSE LET digits == StripHyphens(cnic)
       IN Len(digits) = 13 /\ \A k \in 1..Len(digits) : IsDigit(digits[k])

validateNtnFormat(ntn) ==
  IF ntn = <<>> THEN FALSE
  ELSE LET digits == StripHyphens(ntn)
       IN Len(digits) = 8 /\ \A k \in 1..Len(digits) : IsDigit(digits[k])


\* ------------------------------------------------------------- ocrService text
\* String.prototype.trim
RECURSIVE TrimStart(_)
TrimStart(text) ==
  IF text # <<>> /\ IsSpace(Head(text)) THEN TrimStart(Tail(text)) ELSE text

RECURSIVE TrimEnd(_)
TrimEnd(text) ==
  IF text # <<>> /\ IsSpace(text[Len(text)])
    THEN TrimEnd(SubSeq(text, 1, Len(text) - 1)) ELSE text

Trim(text) == TrimEnd(TrimStart(text))

\* what an OCR backend does with one call: it answers with a text ("text"), it
\* throws or rejects ("throws"), or, for Tesseract, it resolves with data.text
\* null ("null")
Backend(kind, text) == [kind |-> kind, text |-> text]
NoBackend == Backend("none", <<>>)

\* the completion of a call: a returned text or a raised exception, with the
\* number of calls made to the secondary backend
Returned(text, secondaryCalls) ==
  [raised |-> FALSE, text |-> text, secondaryCalls |-> secondaryCalls]
Raised(secondaryCalls) ==
  [raised |-> TRUE, text |-> <<>>, secondaryCalls |-> secondaryCalls]

\* a try block that lets the exception out of the function
TryCatch_Rethrow(body, handler) == body

\* try { body } catch { handler }
TryCatch(body, handler) == IF body.raised THEN handler ELSE body

\* extractTextFromUrlWithOCRSpace(url): ParsedText trimmed, or the exception of
\* fetch, response.json or IsErroredOnProcessing rethrown
extractTextFromUrlWithOCRSpace(primary) ==
  IF primary.kind = "text" THEN Returned(Trim(primary.text), 0) ELSE Raised(0)

\* the Tesseract branch: getWorker, worker.recognize, text.trim()
recognizeWithTesseract(secondary) ==
  IF secondary.kind = "text" THEN Returned(Trim(secondary.text), 1) ELSE Raised(1)

\* extractTextFromUrl(url); url is whether the argument is non-empty
extractTextFromUrl(url, primary, secondary) ==
  IF ~url THEN Returned(<<>>, 0)
  ELSE TryCatch(LET r == extractTextFromUrlWithOCRSpace(primary)
                IN IF r.raised THEN r ELSE Returned(Trim(r.text), 0),
                TryCatch(recognizeWithTesseract(secondary), Returned(<<>>, 1)))

\* no ocrService call made yet
NoOcrCall ==
  [fn |-> "none", url |-> FALSE, primary |-> NoBackend, secondary |-> NoBackend,
   result |-> Returned(<<>>, 0), text |-> <<>>, cnic |-> NoCnic, again |-> NoCnic]

\* ------------------------------------------------------------- state
VARIABLES
  users,      \* User table: sequence of rows, the row's id is its index
  otps,       \* Otp table: set of rows (deleteMany removes rows)
  nextOtp,    \* next serial id of the Otp table
  documents,  \* UserDocument table: sequence of rows
  ocrDatas,   \* OcrData table: sequence of rows
  logs,       \* ActivityLog table: sequence of rows
  now,        \* wall clock, in minutes
  tokens,     \* ids of the users holding an access token issued by login
  last,       \* the request completed last and the response it got
  proven,     \* history: the emails a verify-otp request was answered 200 for
  inflight,   \* requests suspended at an await, by worker
  refreshTokens, \* RefreshToken table: set of rows, one per refresh token issued
  ocrCall     \* the last call of an ocrService function: its inputs and result

vars == <<users, otps, nextOtp, documents, ocrDatas, logs, now, tokens, last, proven,
          inflight, refreshTokens, ocrCall>>

\* The data store as one value, so that a handler is a function from the store
\* before the request to the store after it and the response.
DB == [users |-> users, otps |-> otps, nextOtp |-> nextOtp, documents |-> documents,
       ocrDatas |-> ocrDatas, logs |-> logs, refreshTokens |-> refreshTokens]

NoMetadata == [email |-> NullStr, password |-> NullStr, role |-> NullStr,
               cnic |-> NoCnic, documents |-> <<>>]

\* no KYC upload: no files, no OCR texts
NoKycInput == [files |-> {}, front |-> <<>>, back |-> <<>>, ntn |-> <<>>]

NoResponse == [op |-> "none", status |-> 0, message |-> "", email |-> NullStr,
               otp |-> "", userId |-> NoUser, kyc |-> NoKycInput]

\* what `last` keeps of a request: the operation, the response's status and
\* message, the row the request created or acted on, and, for a verify-otp
\* request, its body { email, otp }; kyc is the upload of a KYC request
Response(op, status, message, email, otp, userId) ==
  LET confirm == op = "verify-otp"
  IN [op |-> op, status |-> status, message |-> message,
      email |-> IF confirm THEN email ELSE NullStr,
      otp |-> IF confirm THEN otp ELSE "",
      userId |-> userId, kyc |-> NoKycInput]

UserIds(us) == 1..Len(us)

\* prisma.user.findUnique({ where: { email } }): the row's id, or NoUser
FindUserByEmail(us, email) ==
  IF email # NullStr /\ \E i \in UserIds(us) : us[i].email = email
  THEN CHOOSE i \in UserIds(us) : us[i].email = email
  ELSE NoUser

\* prisma.user.findUnique/findFirst({ where: { cnic } }): the row's id, or NoUser
FindUserByCnic(us, cnic) ==
  IF cnic # NoCnic /\ \E i \in UserIds(us) : us[i].cnic = cnic
  THEN CHOOSE i \in UserIds(us) : us[i].cnic = cnic
  ELSE NoUser

\* The unique indexes User_email_key and User_cnic_key (null never collides):
\* may row `row` be stored at id `self` (a new id for an insert)?
UniqueIndexesAllow(us, self, row) ==
  \A i \in UserIds(us) \ {self} :
    /\ ~(row.email # NullStr /\ us[i].email = row.email)
    /\ ~(row.cnic # NoCnic /\ us[i].cnic = row.cnic)

\* Otp rows of one scope and purpose that are not used
UnusedOtps(os, email, userId, purpose) ==
  {o \in os : /\ o.purpose = purpose /\ ~o.used
              /\ IF email # NullStr THEN o.email = email ELSE o.userId = userId}

\* prisma.otp.findFirst({ where: {...scope, purpose, used: false },
\*                        orderBy: { createdAt: 'desc' } }): the row's id, or 0.
\* createdAt grows with the serial id.
FindFirstUnusedOtp(os, email, userId, purpose) ==
  LET cand == UnusedOtps(os, email, userId, purpose)
  IN IF cand = {} THEN 0
     ELSE (CHOOSE o \in cand : \A p \in cand : p.id <= o.id).id

OtpById(os, id) == CHOOSE o \in os : o.id = id

\* verifyOtp without its update: the record is returned and stays unused
MarkOtpUsed_Skipped(os, id) == os

\* prisma.otp.update({ where: { id }, data: { used: true } })
MarkOtpUsed(os, id) ==
  {IF o.id = id THEN [o EXCEPT !.used = TRUE] ELSE o : o \in os}

\* prisma.otp.deleteMany({ where: { email, purpose: "email_verification", used: false } })
DeleteUnusedOtps(os, email) ==
  {o \in os : ~(o.email = email /\ o.purpose = "email_verification" /\ ~o.used)}

\* createOtpForUser(userId, purpose, email, metadata) with the generated code `code`
\* at time `t`: the Otp table with the new row
createOtpForUser(os, id, t, code, userId, purpose, email, metadata) ==
  os \cup {[id |-> id, userId |-> userId, email |-> email, otpHash |-> code,
            purpose |-> purpose, metadata |-> metadata, used |-> FALSE,
            expiresAt |-> t + OTP_TTL_MINUTES]}

\* verifyOtp's checks without the expiry test
OtpAccepts_NoExpiry(os, id, t, code) ==
  /\ id # 0
  /\ OtpById(os, id).otpHash = code

\* verifyOtp's checks on the row found: not null, not expired, hash matches
OtpAccepts(os, id, t, code) ==
  /\ id # 0
  /\ ~(t > OtpById(os, id).expiresAt)
  /\ OtpById(os, id).otpHash = code

\* verifyOtp(emailOrUserId, code, purpose) at time t: the id of the record returned
\* (0 for null); an email scope is one passed as `email`, a user id as `userId`
verifyOtpRecord(os, t, email, userId, code, purpose) ==
  LET id == FindFirstUnusedOtp(os, email, userId, purpose)
  IN IF OtpAccepts(os, id, t, code) THEN id ELSE 0

\* the Otp table after verifyOtp
verifyOtpTable(os, t, email, userId, code, purpose) ==
  LET id == verifyOtpRecord(os, t, email, userId, code, purpose)
  IN IF id = 0 THEN os ELSE MarkOtpUsed(os, id)


\* saveRefreshToken(userId, token): the RefreshToken table with the row of a
\* newly signed token; a token is known by the serial id of its row
saveRefreshToken(rts, userId) ==
  rts \cup {[id |-> Cardinality(rts) + 1, userId |-> userId, revoked |-> FALSE]}

\* revokeRefreshTokens(userId)
revokeRefreshTokens(rts, userId) ==
  {IF r.userId = userId THEN [r EXCEPT !.revoked = TRUE] ELSE r : r \in rts}

\* ------------------------------------------------------------- authController
Outcome(db, resp) == [db |-> db, resp |-> resp]

SelfRegisterRoles == {UserRole.INDIVIDUAL, UserRole.WAREHOUSE, UserRole.COMPANY}
BusinessRoles == {UserRole.WAREHOUSE, UserRole.COMPANY}

RequiredNameMessage(role) ==
  CASE role = UserRole.INDIVIDUAL -> "Name is required"
    [] role = UserRole.WAREHOUSE -> "Business name is required"
    [] role = UserRole.COMPANY -> "Company name is required"

\* documentsData of register: the docType of each uploaded document
RegistrationDocuments(role) ==
  CASE role = UserRole.WAREHOUSE -> <<"CNIC">>
    [] role = UserRole.COMPANY -> <<"CNIC", "NTN", "UTILITY">>
    [] OTHER -> <<>>

\* registrationData of register
RegistrationData(req) ==
  [email |-> req.email, password |-> req.password, role |-> req.role,
   cnic |-> req.cnic, documents |-> RegistrationDocuments(req.role)]

\* The validation and upload part of register(req, res), up to the first write:
\* the refusal sent, or NoResponse when the request passes.  req = [email, role,
\* password, name, cnic, files]: name is whether the role's name field is present,
\* cnic is req.body.cnic, files the multipart fields sent.  fault names the call
\* that throws ("none" for none).
registerChecks(db, req, fault) ==
  LET resp(status, message) == Response("register", status, message, req.email, "", NoUser)
      existing == FindUserByEmail(db.users, req.email)
  IN
  IF req.role \notin SelfRegisterRoles
    THEN resp(400, "Invalid role")
  ELSE IF existing # NoUser /\ db.users[existing].emailVerified
    THEN resp(400, "User already exists")
  ELSE IF req.cnic # NoCnic /\ FindUserByCnic(db.users, req.cnic) # NoUser
    THEN resp(400, "CNIC already registered")
  ELSE IF ~req.name
    THEN resp(400, RequiredNameMessage(req.role))
  ELSE IF "profileImage" \in req.files /\ fault = "upload"
    THEN resp(500, "Registration failed")
  ELSE IF "profileImage" \notin req.files /\ req.role # UserRole.INDIVIDUAL
    THEN resp(400, "Profile picture is mandatory")
  ELSE IF req.role \in BusinessRoles /\ "cnic" \notin req.files
    THEN resp(400, "CNIC is required")
  ELSE IF req.role \in BusinessRoles /\ fault = "upload"
    THEN resp(500, "Registration failed")
  ELSE IF req.role = UserRole.COMPANY /\ ~({"ntn", "utility"} \subseteq req.files)
    THEN resp(400, "NTN and Utility Bill required")
  ELSE NoResponse

\* register(req, res).  code is the code generateOtpCode draws; fault names the
\* call that throws ("none" for none): the Cloudinary upload or a data-store
\* write.  sendEmail is taken to return.
register(db, t, req, code, fault) ==
  LET resp(status, message) == Response("register", status, message, req.email, "", NoUser)
      refusal == registerChecks(db, req, fault)
      afterDelete == DeleteUnusedOtps(db.otps, req.email)
      created == createOtpForUser(afterDelete, db.nextOtp, t, code, NoUser,
                                  "email_verification", req.email, RegistrationData(req))
  IN
  IF refusal # NoResponse
    THEN Outcome(db, refusal)
  ELSE IF fault = "deleteMany"
    THEN Outcome(db, resp(500, "Registration failed"))
  ELSE IF fault = "otpCreate"
    THEN Outcome([db EXCEPT !.otps = afterDelete], resp(500, "Registration failed"))
  ELSE Outcome([db EXCEPT !.otps = created, !.nextOtp = @ + 1],
               resp(201, "Registration initiated. Please verify your email."))

\* the row prisma.user.create stores in verifyOtpController
NewUserRow(regData) ==
  [email |-> regData.email, password |-> regData.password, role |-> regData.role,
   emailVerified |-> TRUE,
   verificationStatus |-> VerificationStatus.VERIFIED,
   kycStage |-> KycStage.VERIFIED,
   rejectionReason |-> NullStr, requestedRole |-> NullStr,
   cnic |-> regData.cnic, collectorId |-> NullStr]

DocumentRows(userId, docTypes) ==
  [k \in 1..Len(docTypes) |-> [userId |-> userId, docType |-> docTypes[k]]]

\* the OcrData rows of the OCR pass of verifyOtpController over the documents
\* `docTypes`; ocr[docType] is the text extractTextFromUrl returns for it
RECURSIVE OcrRows(_, _, _)
OcrRows(userId, docTypes, ocr) ==
  IF docTypes = <<>> THEN <<>>
  ELSE LET d == Head(docTypes)
           rest == OcrRows(userId, Tail(docTypes), ocr)
       IN IF d = "CNIC"
            THEN <<[userId |-> userId, docType |-> d,
                    cnic |-> extractCNIC(ocr[d]), ntn |-> <<>>]>> \o rest
          ELSE IF d = "NTN"
            THEN <<[userId |-> userId, docType |-> d,
                    cnic |-> NoCnic, ntn |-> extractNTN(ocr[d])]>> \o rest
          ELSE rest

DocTypesOf(docs, userId) ==
  LET RECURSIVE f(_)
      f(s) == IF s = <<>> THEN <<>>
              ELSE IF Head(s).userId = userId THEN <<Head(s).docType>> \o f(Tail(s))
              ELSE f(Tail(s))
  IN f(docs)

LogRow(userId, actorRole, action) ==
  [userId |-> userId, actorRole |-> actorRole, action |-> action]

\* a confirmation that gives up, creating nothing, when its OCR pass fails
confirmVerified_OcrUnwinds(db, rec, email, otp, ocr, fault) ==
  LET resp(status, message, uid) ==
        Response("verify-otp", status, message, email, otp, uid)
      uid == Len(db.users) + 1
      row == NewUserRow(rec.metadata)
      created == [db EXCEPT !.users = Append(@, row),
                            !.documents = @ \o DocumentRows(uid, rec.metadata.documents),
                            !.ocrDatas = @ \o OcrRows(uid, rec.metadata.documents, ocr),
                            !.logs = Append(@, LogRow(uid, row.role,
                                                      "EMAIL_VERIFIED_AND_REGISTERED"))]
  IN IF fault = "ocr" \/ rec.metadata.email = NullStr
          \/ FindUserByEmail(db.users, rec.metadata.email) # NoUser
       THEN Outcome(db, resp(500, "Verification failed", NoUser))
     ELSE Outcome(created, resp(200, "Email verified successfully. You can now login.", uid))

\* the part of verifyOtpController that follows a successful verifyOtp: `rec` is
\* the record verifyOtp returned and db already has it marked used
confirmVerified(db, rec, email, otp, ocr, fault) ==
  LET resp(status, message, uid) ==
        Response("verify-otp", status, message, email, otp, uid)
      regData == rec.metadata
  IN
  IF regData.email # NullStr THEN
    LET uid == Len(db.users) + 1
        row == NewUserRow(regData)
        withUser == [db EXCEPT !.users = Append(@, row),
                               !.documents = @ \o DocumentRows(uid, regData.documents)]
        withOcr == IF fault = "ocr" THEN withUser
                   ELSE [withUser EXCEPT
                           !.ocrDatas = @ \o OcrRows(uid, regData.documents, ocr)]
    IN
    IF FindUserByEmail(db.users, regData.email) # NoUser
      THEN Outcome(db, resp(400, "User already exists", NoUser))
    ELSE IF fault = "userCreate" \/ ~UniqueIndexesAllow(db.users, uid, row)
      THEN Outcome(db, resp(500, "Verification failed", NoUser))
    ELSE IF fault = "activityLog"
      THEN Outcome(withOcr, resp(500, "Verification failed", NoUser))
    ELSE Outcome([withOcr EXCEPT !.logs = Append(@, LogRow(uid, row.role,
                                                  "EMAIL_VERIFIED_AND_REGISTERED"))],
                 resp(200, "Email verified successfully. You can now login.", uid))
  ELSE
    LET uid == FindUserByEmail(db.users, email)
        autoApprove == db.users[uid].role \in SelfRegisterRoles
        updated == [db EXCEPT
                      !.users[uid].emailVerified = TRUE,
                      !.users[uid].verificationStatus =
                         IF autoApprove THEN VerificationStatus.VERIFIED ELSE @,
                      !.users[uid].kycStage =
                         IF autoApprove THEN KycStage.VERIFIED ELSE @]
        withOcr == IF fault = "ocr" THEN updated
                   ELSE [updated EXCEPT
                           !.ocrDatas = @ \o OcrRows(uid, DocTypesOf(db.documents, uid), ocr)]
    IN
    IF uid = NoUser
      THEN Outcome(db, resp(404, "User not found", NoUser))
    ELSE IF fault = "userCreate"
      THEN Outcome(db, resp(500, "Verification failed", NoUser))
    ELSE IF fault = "activityLog"
      THEN Outcome(withOcr, resp(500, "Verification failed", NoUser))
    ELSE Outcome([withOcr EXCEPT !.logs = Append(@, LogRow(uid, db.users[uid].role,
                                                  "EMAIL_VERIFIED"))],
                 resp(200, "Email verified successfully. You can now login.", uid))

\* verifyOtpController(req, res) with body { email, otp }
verifyOtpController(db, t, email, otp, ocr, fault) ==
  LET id == verifyOtpRecord(db.otps, t, email, NoUser, otp, "email_verification")
      marked == [db EXCEPT
                   !.otps = verifyOtpTable(db.otps, t, email, NoUser, otp,
                                           "email_verification")]
  IN IF id = 0
       THEN Outcome(db, Response("verify-otp", 400, "Invalid or expired OTP",
                                 email, otp, NoUser))
     ELSE confirmVerified(marked, OtpById(db.otps, id), email, otp, ocr, fault)

\* a resend that issues a fresh email-scoped code without the staged payload
resendOtp_WithoutPayload(db, t, email, code, fault) ==
  LET created == createOtpForUser(DeleteUnusedOtps(db.otps, email), db.nextOtp, t, code,
                                  NoUser, "email_verification", email, NoMetadata)
  IN Outcome([db EXCEPT !.otps = created, !.nextOtp = @ + 1],
             Response("resend-otp", 200, "OTP sent successfully", email, "", NoUser))

\* resendOtp(req, res) with body { email }
resendOtp(db, t, email, code, fault) ==
  LET resp(status, message) == Response("resend-otp", status, message, email, "", NoUser)
      pendingId == FindFirstUnusedOtp(db.otps, email, NoUser, "email_verification")
      pending == OtpById(db.otps, pendingId)
      afterDelete == DeleteUnusedOtps(db.otps, email)
      uid == FindUserByEmail(db.users, email)
  IN
  IF pendingId # 0 /\ pending.metadata # NoMetadata THEN
    IF fault = "deleteMany"
      THEN Outcome(db, resp(500, "Resend OTP failed"))
    ELSE IF fault = "otpCreate"
      THEN Outcome([db EXCEPT !.otps = afterDelete], resp(500, "Resend OTP failed"))
    ELSE LET created == createOtpForUser(afterDelete, db.nextOtp, t, code, NoUser,
                                         "email_verification", email, pending.metadata)
             db2 == [db EXCEPT !.otps = created, !.nextOtp = @ + 1]
         IN Outcome(db2, resp(200, "OTP sent successfully"))
  ELSE IF uid = NoUser
    THEN Outcome(db, resp(404, "No registration found for this email"))
  ELSE IF db.users[uid].emailVerified
    THEN Outcome(db, resp(400, "Email already verified"))
  ELSE IF fault = "otpCreate"
    THEN Outcome(db, resp(500, "Resend OTP failed"))
  ELSE LET created == createOtpForUser(db.otps, db.nextOtp, t, code, uid,
                                       "email_verification", NullStr, NoMetadata)
           db2 == [db EXCEPT !.otps = created, !.nextOtp = @ + 1]
       IN Outcome(db2, resp(200, "OTP sent successfully"))


\* forgotPassword(req, res) with body { email }
forgotPassword(db, t, email, code, fault) ==
  LET resp(status, message) ==
        Response("forgot-password", status, message, email, "", NoUser)
      uid == FindUserByEmail(db.users, email)
      created == createOtpForUser(db.otps, db.nextOtp, t, code, uid,
                                  "password_reset", NullStr, NoMetadata)
      db2 == [db EXCEPT !.otps = created, !.nextOtp = @ + 1]
  IN
  IF uid = NoUser
    THEN Outcome(db, resp(200, "If an account exists, OTP sent"))
  ELSE IF fault = "otpCreate"
    THEN Outcome(db, resp(500, "Forgot password failed"))
  ELSE IF fault = "activityLog"
    THEN Outcome(db2, resp(500, "Forgot password failed"))
  ELSE Outcome([db2 EXCEPT !.logs = Append(@, LogRow(uid, db.users[uid].role,
                                                    "FORGOT_PASSWORD"))],
               resp(200, "If an account exists, OTP sent"))

\* resetPassword(req, res) with body { email, otp, newPassword }
resetPassword(db, t, email, otp, newPassword, fault) ==
  LET resp(status, message, u) ==
        Response("reset-password", status, message, email, otp, u)
      uid == FindUserByEmail(db.users, email)
      id == verifyOtpRecord(db.otps, t, NullStr, uid, otp, "password_reset")
      marked == [db EXCEPT
                   !.otps = verifyOtpTable(db.otps, t, NullStr, uid, otp, "password_reset")]
      changed == [marked EXCEPT !.users[uid].password = newPassword]
      revoked == [changed EXCEPT !.refreshTokens = revokeRefreshTokens(@, uid)]
  IN
  IF uid = NoUser
    THEN Outcome(db, resp(400, "Invalid request", NoUser))
  ELSE IF id = 0
    THEN Outcome(db, resp(400, "Invalid or expired OTP", uid))
  ELSE IF fault = "userUpdate"
    THEN Outcome(marked, resp(500, "Reset password failed", uid))
  ELSE IF fault = "activityLog"
    THEN Outcome(changed, resp(500, "Reset password failed", uid))
  ELSE Outcome([revoked EXCEPT !.logs = Append(@, LogRow(uid, db.users[uid].role,
                                                        "PASSWORD_RESET"))],
               resp(200, "Password reset successfully", uid))

\* changePassword(req, res) of POST /api/auth/change-password for the
\* authenticated user uid, with body { currentPassword, newPassword }
changePassword(db, uid, currentPassword, newPassword) ==
  LET resp(status, message) == Response("change-password", status, message, NullStr, "", uid)
      changed == [db EXCEPT !.users[uid].password = newPassword]
      revoked == [changed EXCEPT !.refreshTokens = revokeRefreshTokens(@, uid)]
  IN
  IF uid \notin UserIds(db.users) \/ db.users[uid].password = NullStr
    THEN Outcome(db, resp(400, "Invalid user"))
  ELSE IF db.users[uid].password # currentPassword
    THEN Outcome(db, resp(400, "Current password incorrect"))
  ELSE Outcome([revoked EXCEPT !.logs = Append(@, LogRow(uid, db.users[uid].role,
                                                        "PASSWORD_CHANGED"))],
               resp(200, "Password changed"))

\* logout(req, res) for the authenticated user uid
logout(db, uid) ==
  Outcome([db EXCEPT !.refreshTokens = revokeRefreshTokens(@, uid),
                     !.logs = Append(@, LogRow(uid, db.users[uid].role, "LOGOUT"))],
          Response("logout", 200, "Logged out", NullStr, "", uid))

\* the refresh token signRefreshToken issued together with RefreshToken row
\* `row`: its payload is { userId }
SignedRefreshToken(row) == [signed |-> TRUE, userId |-> row.userId, id |-> row.id]

\* a token the server did not sign
ForgedRefreshToken(userId) == [signed |-> FALSE, userId |-> userId, id |-> 0]

\* validateRefreshToken(token): jwt.verify(token, JWT_REFRESH_SECRET) returns the
\* payload or throws
validateRefreshToken(token) == token.signed

\* refreshToken(req, res) with body { refreshToken }
refreshToken(db, token) ==
  LET resp(status, message, u) == Response("refresh", status, message, NullStr, "", u)
      uid == token.userId
  IN
  IF ~validateRefreshToken(token)
    THEN Outcome(db, resp(500, "Refresh token failed", NoUser))
  ELSE IF uid \notin UserIds(db.users)
    THEN Outcome(db, resp(401, "Invalid token", NoUser))
  ELSE Outcome([db EXCEPT !.refreshTokens = saveRefreshToken(@, uid),
                          !.logs = Append(@, LogRow(uid, db.users[uid].role,
                                                    "REFRESH_TOKEN_ROTATED"))],
               resp(200, "Token refreshed", uid))

\* the user row login finds: prisma.user.findFirst({ where: { OR: [{ email:
\* identifier }, { collectorId: identifier }] } })
FindUserByIdentifier(us, identifier) ==
  IF \E i \in UserIds(us) : identifier \in {us[i].email, us[i].collectorId}
  THEN CHOOSE i \in UserIds(us) : identifier \in {us[i].email, us[i].collectorId}
  ELSE NoUser

\* login(req, res) with body { identifier, password }; the response's message is
\* "Login successful" exactly when the tokens are issued
login(db, identifier, password, fault) ==
  LET resp(status, message, u) == Response("login", status, message, identifier, "", u)
      uid == FindUserByIdentifier(db.users, identifier)
      user == db.users[uid]
  IN
  IF uid = NoUser \/ identifier = NullStr
    THEN Outcome(db, resp(401, "Invalid credentials", NoUser))
  ELSE IF user.password = NullStr \/ user.password # password
    THEN Outcome(db, resp(401, "Invalid credentials", NoUser))
  ELSE IF user.role # UserRole.ADMIN
          /\ user.verificationStatus = VerificationStatus.BLOCKED
    THEN Outcome(db, resp(403, "Account blocked", NoUser))
  ELSE IF user.role # UserRole.ADMIN
          /\ user.verificationStatus = VerificationStatus.REJECTED
    THEN Outcome(db, resp(200, "Account rejected", NoUser))
  ELSE IF user.role # UserRole.ADMIN
          /\ user.verificationStatus = VerificationStatus.PENDING
          /\ user.role # UserRole.INDIVIDUAL
    THEN Outcome(db, resp(200, "Account pending verification", NoUser))
  ELSE IF user.role # UserRole.ADMIN
          /\ ~user.emailVerified /\ user.role = UserRole.INDIVIDUAL
    THEN Outcome(db, resp(403, "Email not verified", NoUser))
  ELSE IF fault = "activityLog"
    THEN Outcome(db, resp(500, "Login failed", NoUser))
  ELSE Outcome([db EXCEPT !.refreshTokens = saveRefreshToken(@, uid),
                          !.logs = Append(@, LogRow(uid, user.role, "LOGIN"))],
               resp(200, "Login successful", uid))

\* ------------------------------------------------------------- userController
\* updateProfile(req, res) of PUT /api/user/profile for the authenticated user
\* uid, with body { email } (NullStr: no email in the body) and { password }
updateProfile(db, uid, email, password, fault) ==
  LET resp(status, message) ==
        Response("update-profile", status, message, email, "", uid)
      row == [db.users[uid] EXCEPT
                !.email = IF email # NullStr THEN email ELSE @,
                !.password = IF password # NullStr THEN password ELSE @]
  IN
  IF email = NullStr /\ password = NullStr
    THEN Outcome(db, resp(400, "No changes provided"))
  ELSE IF fault = "userUpdate" \/ ~UniqueIndexesAllow(db.users, uid, row)
    THEN Outcome(db, resp(500, "Failed to update profile"))
  ELSE Outcome([db EXCEPT !.users[uid] = row], resp(200, "Profile updated successfully"))

\* a transition check that allows every pair
isValidTransition_Any(currentRole, requestedRole) == TRUE

\* isValidTransition(currentRole, requestedRole)
isValidTransition(currentRole, requestedRole) ==
  \/ currentRole = UserRole.INDIVIDUAL /\ requestedRole \in {UserRole.WAREHOUSE, UserRole.COMPANY}
  \/ currentRole = UserRole.WAREHOUSE /\ requestedRole = UserRole.COMPANY

\* extractCNIC(frontText) || extractCNIC(backText)
extractCNICFrontOrBack(front, back) ==
  IF extractCNIC(front) # NoCnic THEN extractCNIC(front) ELSE extractCNIC(back)

\* an upgrade that stores the requested role before it validates the request
requestRoleUpgrade_RoleFirst(db, uid, req, fault) ==
  LET resp(status, message) == Response("upgrade-role", status, message, NullStr, "", uid)
      stored == [db EXCEPT !.users[uid].role = req.requestedRole,
                           !.logs = Append(@, LogRow(uid, db.users[uid].role,
                                                     "ROLE_UPGRADE_AUTO_APPROVED"))]
  IN IF ~isValidTransition(db.users[uid].role, req.requestedRole)
       THEN Outcome(db, resp(400, "Invalid role transition"))
     ELSE IF ~req.address
       THEN Outcome(stored, resp(400, "Address is required for upgrade"))
     ELSE Outcome(stored, resp(200, "Role upgrade approved successfully. Your account has been upgraded."))

\* requestRoleUpgrade(req, res) for the authenticated user uid.  req =
\* [requestedRole, name, address, files, front, back, ntn]: name and address are
\* whether the fields are present, files the multipart fields sent, front/back/ntn
\* the texts extractTextFromUrl returns for the uploads.
requestRoleUpgrade(db, uid, req, fault) ==
  LET resp(status, message) == Response("upgrade-role", status, message, NullStr, "", uid)
      user == db.users[uid]
      toWarehouse == req.requestedRole = UserRole.WAREHOUSE
      toCompany == req.requestedRole = UserRole.COMPANY
      ocrCnic == IF toWarehouse THEN extractCNICFrontOrBack(req.front, req.back) ELSE NoCnic
      ocrNtn == IF toCompany THEN extractNTN(req.ntn) ELSE <<>>
      docTypes == (IF toWarehouse THEN <<"CNIC_FRONT", "CNIC_BACK">> ELSE <<>>)
                  \o (IF toCompany THEN <<"NTN", "REGISTRATION">> ELSE <<>>)
                  \o <<"UTILITY">>
      row == [user EXCEPT !.role = req.requestedRole,
                          !.requestedRole = NullStr,
                          !.verificationStatus = VerificationStatus.VERIFIED,
                          !.kycStage = KycStage.VERIFIED,
                          !.cnic = IF ocrCnic # NoCnic THEN ocrCnic ELSE @]
      ocrRow == [userId |-> uid, docType |-> IF ocrCnic # NoCnic THEN "CNIC" ELSE "NTN",
                 cnic |-> ocrCnic, ntn |-> ocrNtn]
  IN
  IF ~isValidTransition(user.role, req.requestedRole)
    THEN Outcome(db, resp(400, "Invalid role transition"))
  ELSE IF user.verificationStatus = VerificationStatus.PENDING /\ user.requestedRole # NullStr
    THEN Outcome(db, resp(400, "You already have a pending upgrade request"))
  ELSE IF ~req.address
    THEN Outcome(db, resp(400, "Address is required for upgrade"))
  ELSE IF toWarehouse /\ ~req.name
    THEN Outcome(db, resp(400, "Business Name is required"))
  ELSE IF toWarehouse /\ ~({"cnicFront", "cnicBack"} \subseteq req.files)
    THEN Outcome(db, resp(400, "CNIC Front and Back are required"))
  ELSE IF toCompany /\ ~req.name
    THEN Outcome(db, resp(400, "Company Name is required"))
  ELSE IF toCompany /\ ~({"ntn", "registration"} \subseteq req.files)
    THEN Outcome(db, resp(400, "NTN and Registration Certificate are required"))
  ELSE IF fault = "upload"
    THEN Outcome(db, resp(500, "Failed to process role upgrade request"))
  ELSE IF toWarehouse /\ ocrCnic = NoCnic
    THEN Outcome(db, resp(400, "Could not verify CNIC from uploaded images. Please upload clear images."))
  ELSE IF toCompany /\ ocrNtn = <<>>
    THEN Outcome(db, resp(400, "Could not verify NTN from uploaded document."))
  ELSE IF "utility" \notin req.files
    THEN Outcome(db, resp(400, "Utility Bill is required"))
  ELSE IF fault = "transaction" \/ ~UniqueIndexesAllow(db.users, uid, row)
    THEN Outcome(db, resp(500, "Failed to process role upgrade request"))
  ELSE Outcome([db EXCEPT !.users[uid] = row,
                          !.documents = @ \o DocumentRows(uid, docTypes),
                          !.ocrDatas = Append(@, ocrRow),
                          !.logs = Append(@, LogRow(uid, user.role,
                                                    "ROLE_UPGRADE_AUTO_APPROVED"))],
               resp(200, "Role upgrade approved successfully. Your account has been upgraded."))

\* ------------------------------------------------------------- kycController
\* isCnicUnique(cnic): prisma.user.findFirst({ where: { cnic } }) finds no row
isCnicUnique(us, cnic) == FindUserByCnic(us, cnic) = NoUser

\* a route that lets every self-registered role through
KycRoles_WithIndividual ==
  {UserRole.INDIVIDUAL, UserRole.WAREHOUSE, UserRole.COMPANY, UserRole.COLLECTOR}

KycRoles == {UserRole.WAREHOUSE, UserRole.COMPANY, UserRole.COLLECTOR}

\* a decision that leaves an upload without an extracted number undecided
KycDecision_UndecidedWithoutCnic(us, role, cnic, in) ==
  IF cnic = NoCnic
    THEN [status |-> VerificationStatus.PENDING, stage |-> KycStage.REGISTERED,
          reason |-> NullStr]
  ELSE [status |-> VerificationStatus.VERIFIED, stage |-> KycStage.VERIFIED,
        reason |-> NullStr]

\* the decision of registerKyc: [status, stage, reason] for the extracted cnic
KycDecision(us, role, cnic, in) ==
  LET decide(status, stage, reason) == [status |-> status, stage |-> stage, reason |-> reason]
      rejected(reason) ==
        decide(VerificationStatus.REJECTED, KycStage.DOCUMENTS_UPLOADED, reason)
      verified == decide(VerificationStatus.VERIFIED, KycStage.VERIFIED, NullStr)
      ntn == extractNTN(in.ntn)
  IN
  IF cnic = NoCnic
    THEN rejected("OCR failed to extract valid CNIC from uploaded documents. Please ensure images are clear and readable.")
  ELSE IF ~validateCnicFormat(cnic)
    THEN rejected("Extracted CNIC format is invalid. Please upload clear CNIC images.")
  ELSE IF ~isCnicUnique(us, cnic)
    THEN rejected("This CNIC is already registered with another business account.")
  ELSE IF role = UserRole.COMPANY /\ "ntn" \notin in.files
    THEN rejected("NTN certificate is required for company registration.")
  ELSE IF role = UserRole.COMPANY /\ (ntn = <<>> \/ ~validateNtnFormat(ntn))
    THEN rejected("OCR failed to extract valid NTN from certificate. Please upload a clear NTN document.")
  ELSE verified

\* POST /api/kyc/register for the authenticated user uid: permit(...) and
\* registerKyc.  in = [files, front, back, ntn]: the multipart fields sent and the
\* texts extractTextFromUrl returns for the uploads.
registerKyc(db, uid, in, fault) ==
  LET resp(status, message) ==
        [Response("kyc-register", status, message, NullStr, "", uid) EXCEPT !.kyc = in]
      user == db.users[uid]
      cnic == extractCNICFrontOrBack(in.front, in.back)
      decision == KycDecision(db.users, user.role, cnic, in)
      row == [user EXCEPT !.cnic = cnic,
                          !.verificationStatus = decision.status,
                          !.kycStage = decision.stage,
                          !.rejectionReason = decision.reason]
  IN
  IF user.role \notin KycRoles
    THEN Outcome(db, resp(403, "Forbidden"))
  ELSE IF user.role = UserRole.INDIVIDUAL
    THEN Outcome(db, resp(400, "Individuals do not require KYC documents"))
  ELSE IF ~({"frontCnic", "backCnic"} \subseteq in.files)
    THEN Outcome(db, resp(400, "Both front and back CNIC images are required"))
  ELSE IF fault = "upload"
    THEN Outcome(db, resp(500, "Failed to process KYC"))
  ELSE IF fault = "userUpdate" \/ ~UniqueIndexesAllow(db.users, uid, row)
    THEN Outcome(db, resp(500, "Failed to process KYC"))
  ELSE IF decision.status = VerificationStatus.VERIFIED
    THEN Outcome([db EXCEPT !.users[uid] = row],
                 resp(200, "KYC approved! Your documents have been verified successfully."))
  ELSE Outcome([db EXCEPT !.users[uid] = row], resp(400, decision.reason))

\* approveKyc(req, res) of POST /api/kyc/approve/:userId
approveKyc(db, userId) ==
  LET resp(status, message) == Response("kyc-approve", status, message, NullStr, "", userId)
  IN IF userId \notin UserIds(db.users)
       THEN Outcome(db, resp(500, "Failed to approve KYC"))
     ELSE Outcome([db EXCEPT !.users[userId].verificationStatus = VerificationStatus.VERIFIED,
                             !.users[userId].kycStage = KycStage.VERIFIED,
                             !.users[userId].rejectionReason = NullStr],
                  resp(200, "KYC approved"))

\* rejectKyc(req, res) of POST /api/kyc/reject/:userId; reason = NullStr for a
\* body without reason
rejectKyc(db, userId, reason) ==
  LET resp(status, message) == Response("kyc-reject", status, message, NullStr, "", userId)
  IN IF userId \notin UserIds(db.users)
       THEN Outcome(db, resp(500, "Failed to reject KYC"))
     ELSE Outcome([db EXCEPT !.users[userId].verificationStatus = VerificationStatus.REJECTED,
                             !.users[userId].kycStage = VerificationStatus.REJECTED,
                             !.users[userId].rejectionReason =
                                IF reason = NullStr THEN "Rejected by admin" ELSE reason],
                  resp(200, "KYC rejected"))

\* ------------------------------------------------------------- adminController
\* approveKYC(req, res) of POST /api/admin/kyc/approve by the admin adminId
approveKYC(db, adminId, userId, fault) ==
  LET resp(status, message) == Response("admin-approve", status, message, NullStr, "", userId)
      user == db.users[userId]
      updated == [db EXCEPT !.users[userId].verificationStatus = VerificationStatus.VERIFIED,
                            !.users[userId].kycStage = KycStage.VERIFIED,
                            !.users[userId].rejectionReason = NullStr,
                            !.users[userId].role =
                               IF user.requestedRole # NullStr THEN user.requestedRole ELSE @,
                            !.users[userId].requestedRole = NullStr]
  IN IF userId \notin UserIds(db.users)
       THEN Outcome(db, resp(404, "User not found"))
     ELSE IF fault = "userUpdate"
       THEN Outcome(db, resp(500, "Failed to approve KYC"))
     ELSE IF fault = "activityLog"
       THEN Outcome(updated, resp(500, "Failed to approve KYC"))
     ELSE Outcome([updated EXCEPT !.logs = Append(@, LogRow(adminId, UserRole.ADMIN,
                                                            "KYC_APPROVED"))],
                  resp(200, "User approved successfully"))

\* rejectKYC(req, res) of POST /api/admin/kyc/reject by the admin adminId
rejectKYC(db, adminId, userId, reason, fault) ==
  LET resp(status, message) == Response("admin-reject", status, message, NullStr, "", userId)
      updated == [db EXCEPT !.users[userId].verificationStatus = VerificationStatus.REJECTED,
                            !.users[userId].kycStage = VerificationStatus.REJECTED,
                            !.users[userId].rejectionReason = reason]
  IN IF reason = NullStr
       THEN Outcome(db, resp(400, "Rejection reason is required"))
     ELSE IF userId \notin UserIds(db.users)
       THEN Outcome(db, resp(404, "User not found"))
     ELSE IF fault = "userUpdate"
       THEN Outcome(db, resp(500, "Failed to reject KYC"))
     ELSE IF fault = "activityLog"
       THEN Outcome(updated, resp(500, "Failed to reject KYC"))
     ELSE Outcome([updated EXCEPT !.logs = Append(@, LogRow(adminId, UserRole.ADMIN,
                                                            "KYC_REJECTED"))],
                  resp(200, "User rejected successfully"))

\* suspendUser(req, res) of PUT /api/admin/users/:id/suspend with body { suspended }
suspendUser(db, id, suspended) ==
  LET resp(status, message) == Response("admin-suspend", status, message, NullStr, "", id)
  IN IF id \notin UserIds(db.users)
       THEN Outcome(db, resp(500, "Failed to suspend/activate user"))
     ELSE Outcome([db EXCEPT !.users[id].verificationStatus =
                               IF suspended THEN VerificationStatus.SUSPENDED
                               ELSE VerificationStatus.VERIFIED],
                  resp(200, IF suspended THEN "User suspended successfully"
                            ELSE "User activated successfully"))


\* ------------------------------------------------------------- collectors
\* the row prisma.user.create stores for { collectorId, role: 'collector', name,
\* createdById }: every other column takes its schema default
CollectorRow(id) ==
  [email |-> NullStr, password |-> NullStr, role |-> UserRole.COLLECTOR,
   emailVerified |-> FALSE,
   verificationStatus |-> VerificationStatus.PENDING,
   kycStage |-> KycStage.REGISTERED,
   rejectionReason |-> NullStr, requestedRole |-> NullStr,
   cnic |-> NoCnic, collectorId |-> id]

\* addCollector(req, res, next) by the warehouse warehouseId; id is the collector
\* id the generate-until-unused loop ends with
addCollector(db, warehouseId, id) ==
  LET resp(status, message) ==
        Response("add-collector", status, message, NullStr, "", warehouseId)
      created == [db EXCEPT !.users = Append(@, CollectorRow(id))]
  IN Outcome([created EXCEPT !.logs = Append(@, LogRow(warehouseId, UserRole.WAREHOUSE,
                                                       "COLLECTOR_ID_CREATED"))],
             resp(201, "Collector ID created"))

\* registerCollector(req, res) with body { collectorId, password }
registerCollector(db, collectorId, password, fault) ==
  LET uid == IF \E i \in UserIds(db.users) : db.users[i].collectorId = collectorId
             THEN CHOOSE i \in UserIds(db.users) : db.users[i].collectorId = collectorId
             ELSE NoUser
      resp(status, message) ==
        Response("register-collector", status, message, NullStr, "", uid)
      updated == [db EXCEPT !.users[uid].password = password]
  IN IF uid = NoUser
       THEN Outcome(db, resp(404, "Collector ID invalid"))
     ELSE IF db.users[uid].password # NullStr
       THEN Outcome(db, resp(400, "Collector already registered"))
     ELSE IF fault = "userUpdate"
       THEN Outcome(db, resp(500, "Collector registration failed"))
     ELSE Outcome([updated EXCEPT !.logs = Append(@, LogRow(uid, UserRole.COLLECTOR,
                                                            "COLLECTOR_REGISTERED"))],
                  resp(200, "Collector registered. You can login with your ID and password."))

\* ------------------------------------------------------------- inputs
Emails == {"a@x.pk", "b@x.pk"}
AdminEmail == "recyconnect5@gmail.com"
Codes == {"111111", "222222"}
UserPassword == "Passw0rd!"
OtherPassword == "N3wPassw0rd!"
AdminPassword == "admin@123"

CnicHyphenA == <<"1", "2", "3", "4", "5", "-", "1", "2", "3", "4", "5", "6", "7", "-", "1">>
CnicPlainA == <<"1", "2", "3", "4", "5", "1", "2", "3", "4", "5", "6", "7", "1">>
CnicSpacedA == <<"1", "2", "3", "4", "5", " ", "1", "2", "3", "4", "5", "6", "7", " ", "1">>
CnicHyphenB == <<"5", "4", "3", "2", "1", "-", "7", "6", "5", "4", "3", "2", "1", "-", "2">>
NtnText == <<"N", " ", "7", "6", "5", "4", "3", "2", "1", "-", "8">>
BlurredText == <<"x", "x", " ", "1", "2", "3">>
EmptyText == <<>>

\* the seeded admin row (prisma/seed.js); the columns it does not set take the
\* schema's defaults
AdminRow ==
  [email |-> AdminEmail, password |-> AdminPassword, role |-> UserRole.ADMIN,
   emailVerified |-> TRUE,
   verificationStatus |-> VerificationStatus.PENDING,
   kycStage |-> KycStage.REGISTERED,
   rejectionReason |-> NullStr, requestedRole |-> NullStr,
   cnic |-> NoCnic, collectorId |-> NullStr]

FilesFor(role) ==
  CASE role = UserRole.INDIVIDUAL -> {}
    [] role = UserRole.WAREHOUSE -> {"profileImage", "cnic"}
    [] role = UserRole.COMPANY -> {"profileImage", "cnic", "ntn", "utility"}

Request(email, role, name, cnic, files) ==
  [email |-> email, role |-> role, password |-> UserPassword, name |-> name,
   cnic |-> cnic, files |-> files]

\* well-formed registration requests
ValidRequests(roles, cnics) ==
  {Request(e, r, TRUE, c, FilesFor(r)) : e \in Emails, r \in roles, c \in cnics}

\* registration requests that fail a validation
InvalidRequests ==
  {Request("a@x.pk", UserRole.INDIVIDUAL, FALSE, NoCnic, {}),
   Request("a@x.pk", UserRole.WAREHOUSE, TRUE, NoCnic, {"cnic"}),
   Request("a@x.pk", UserRole.WAREHOUSE, TRUE, NoCnic, {"profileImage"}),
   Request("a@x.pk", UserRole.COMPANY, TRUE, NoCnic, {"profileImage", "cnic", "ntn"})}

OcrInputs(cnicTexts, ntnTexts) ==
  {[d \in {"CNIC", "NTN"} |-> IF d = "CNIC" THEN c ELSE n] :
     c \in cnicTexts, n \in ntnTexts}

\* ------------------------------------------------------------- actions
\* the requests the server may be handling at once
Workers == {1, 2}

\* findFirst returning null
NoOtp == [id |-> 0, userId |-> NoUser, email |-> NullStr, otpHash |-> "",
          purpose |-> "", metadata |-> NoMetadata, used |-> FALSE, expiresAt |-> 0]

\* a request suspended at an await: the handler, the await it is suspended at, its
\* body { email, otp }, and its locals: the Otp row findFirst returned (rec) and
\* the registration payload it carries (metadata)
Frame(op, pc, email, otp, rec, metadata) ==
  [op |-> op, pc |-> pc, email |-> email, otp |-> otp, rec |-> rec, metadata |-> metadata]

Idle == Frame("none", "idle", NullStr, "", NoOtp, NoMetadata)

Init ==
  /\ users = <<AdminRow>>
  /\ otps = {}
  /\ nextOtp = 1
  /\ documents = <<>>
  /\ ocrDatas = <<>>
  /\ logs = <<>>
  /\ now = 0
  /\ tokens = {}
  /\ last = NoResponse
  /\ proven = {}
  /\ inflight = [w \in Workers |-> Idle]
  /\ refreshTokens = {}
  /\ ocrCall = NoOcrCall

\* a request handled to completion: the store after it and the response
Complete(out) ==
  /\ users' = out.db.users
  /\ otps' = out.db.otps
  /\ nextOtp' = out.db.nextOtp
  /\ documents' = out.db.documents
  /\ ocrDatas' = out.db.ocrDatas
  /\ logs' = out.db.logs
  /\ refreshTokens' = out.db.refreshTokens
  /\ UNCHANGED ocrCall
  /\ last' = out.resp
  /\ proven' = IF out.resp.op = "verify-otp" /\ out.resp.status = 200
               THEN proven \cup {out.resp.email} ELSE proven

\* the tables stay within nUsers registered users, nOtps codes, nLogs log rows
Bounded(nUsers, nOtps, nLogs) ==
  /\ Len(users') <= nUsers + 1
  /\ nextOtp' <= nOtps + 1
  /\ Len(logs') <= nLogs

Register(req, code, fault) ==
  /\ Complete(register(DB, now, req, code, fault))
  /\ UNCHANGED <<now, tokens, inflight>>

VerifyOtp(email, otp, ocr, fault) ==
  /\ Complete(verifyOtpController(DB, now, email, otp, ocr, fault))
  /\ UNCHANGED <<now, tokens, inflight>>

ResendOtp(email, code, fault) ==
  /\ Complete(resendOtp(DB, now, email, code, fault))
  /\ UNCHANGED <<now, tokens, inflight>>

ForgotPassword(email, code, fault) ==
  /\ Complete(forgotPassword(DB, now, email, code, fault))
  /\ UNCHANGED <<now, tokens, inflight>>

ResetPassword(email, otp, newPassword, fault) ==
  /\ Complete(resetPassword(DB, now, email, otp, newPassword, fault))
  /\ UNCHANGED <<now, tokens, inflight>>

Login(identifier, password, fault) ==
  LET out == login(DB, identifier, password, fault)
  IN /\ Complete(out)
     /\ tokens' = IF out.resp.message = "Login successful"
                  THEN tokens \cup {out.resp.userId} ELSE tokens
     /\ UNCHANGED <<now, inflight>>

\* authenticateToken: the bearer of a token of user uid, whose row exists
Authenticated(uid) == uid \in tokens /\ uid \in UserIds(users)

Logout(uid) ==
  /\ Authenticated(uid)
  /\ Complete(logout(DB, uid))
  /\ UNCHANGED <<now, tokens, inflight>>

ChangePassword(uid, currentPassword, newPassword) ==
  /\ Authenticated(uid)
  /\ Complete(changePassword(DB, uid, currentPassword, newPassword))
  /\ UNCHANGED <<now, tokens, inflight>>

\* POST /api/auth/refresh: the new access token is held by the account's client
RefreshToken(token) ==
  LET out == refreshToken(DB, token)
  IN /\ Complete(out)
     /\ tokens' = IF out.resp.message = "Token refreshed"
                  THEN tokens \cup {out.resp.userId} ELSE tokens
     /\ UNCHANGED <<now, inflight>>

UpdateProfile(uid, email, password, fault) ==
  /\ Authenticated(uid)
  /\ Complete(updateProfile(DB, uid, email, password, fault))
  /\ UNCHANGED <<now, tokens, inflight>>

\* permit(...allowedRoles) refusing the authenticated user uid
Forbidden(op, uid) == Outcome(DB, Response(op, 403, "Forbidden", NullStr, "", uid))

KycRegister(uid, in, fault) ==
  /\ Authenticated(uid)
  /\ Complete(registerKyc(DB, uid, in, fault))
  /\ UNCHANGED <<now, tokens, inflight>>

RequestRoleUpgrade(uid, req, fault) ==
  /\ Authenticated(uid)
  /\ Complete(requestRoleUpgrade(DB, uid, req, fault))
  /\ UNCHANGED <<now, tokens, inflight>>

ApproveKyc(uid, userId) ==
  /\ Authenticated(uid)
  /\ Complete(IF users[uid].role = UserRole.ADMIN THEN approveKyc(DB, userId)
              ELSE Forbidden("kyc-approve", uid))
  /\ UNCHANGED <<now, tokens, inflight>>

RejectKyc(uid, userId, reason) ==
  /\ Authenticated(uid)
  /\ Complete(IF users[uid].role = UserRole.ADMIN THEN rejectKyc(DB, userId, reason)
              ELSE Forbidden("kyc-reject", uid))
  /\ UNCHANGED <<now, tokens, inflight>>

ApproveKYC(uid, userId, fault) ==
  /\ Authenticated(uid)
  /\ Complete(IF users[uid].role = UserRole.ADMIN THEN approveKYC(DB, uid, userId, fault)
              ELSE Forbidden("admin-approve", uid))
  /\ UNCHANGED <<now, tokens, inflight>>

RejectKYC(uid, userId, reason, fault) ==
  /\ Authenticated(uid)
  /\ Complete(IF users[uid].role = UserRole.ADMIN
              THEN rejectKYC(DB, uid, userId, reason, fault)
              ELSE Forbidden("admin-reject", uid))
  /\ UNCHANGED <<now, tokens, inflight>>

SuspendUser(uid, id, suspended) ==
  /\ Authenticated(uid)
  /\ Complete(IF users[uid].role = UserRole.ADMIN THEN suspendUser(DB, id, suspended)
              ELSE Forbidden("admin-suspend", uid))
  /\ UNCHANGED <<now, tokens, inflight>>

AddCollector(uid, id) ==
  /\ Authenticated(uid)
  /\ \A i \in UserIds(users) : users[i].collectorId # id
  /\ Complete(IF users[uid].role = UserRole.WAREHOUSE THEN addCollector(DB, uid, id)
              ELSE Forbidden("add-collector", uid))
  /\ UNCHANGED <<now, tokens, inflight>>

RegisterCollector(collectorId, password, fault) ==
  /\ Complete(registerCollector(DB, collectorId, password, fault))
  /\ UNCHANGED <<now, tokens, inflight>>

\* a call of extractTextFromUrl with the backends behaving as given
ExtractTextFromUrl(url, primary, secondary) ==
  /\ ocrCall' = [NoOcrCall EXCEPT !.fn = "extractTextFromUrl", !.url = url,
                                  !.primary = primary, !.secondary = secondary,
                                  !.result = extractTextFromUrl(url, primary, secondary)]
  /\ UNCHANGED <<users, otps, nextOtp, documents, ocrDatas, logs, now, tokens, last, proven,
                 inflight, refreshTokens>>

\* a call of extractCNIC on a text and, when it returns a number, a second call
\* on that number
ExtractCNIC(text) ==
  /\ ocrCall' = [NoOcrCall EXCEPT !.fn = "extractCNIC", !.text = text,
                                  !.cnic = extractCNIC(text),
                                  !.again = IF extractCNIC(text) # NoCnic
                                            THEN extractCNIC(extractCNIC(text))
                                            ELSE NoCnic]
  /\ UNCHANGED <<users, otps, nextOtp, documents, ocrDatas, logs, now, tokens, last, proven,
                 inflight, refreshTokens>>

Tick ==
  /\ now + TickStep <= MaxTime
  /\ now' = now + TickStep
  /\ UNCHANGED <<users, otps, nextOtp, documents, ocrDatas, logs, tokens, last, proven,
                 inflight, refreshTokens, ocrCall>>

\* the clock advances by `minutes`, up to `limit`
Elapse(minutes, limit) ==
  /\ now + minutes <= limit
  /\ now' = now + minutes
  /\ UNCHANGED <<users, otps, nextOtp, documents, ocrDatas, logs, tokens, last, proven,
                 inflight, refreshTokens, ocrCall>>

\* ------------------------------------------------------------- awaits
\* The handlers of the registration pipeline, one data-store statement at a time:
\* between two statements of one request the statements of another may run.

\* register up to and including otp.deleteMany
RegisterBegin(w, req) ==
  LET refusal == registerChecks(DB, req, "none")
  IN /\ inflight[w] = Idle
     /\ IF refusal # NoResponse
          THEN /\ Complete(Outcome(DB, refusal))
               /\ UNCHANGED inflight
          ELSE /\ otps' = DeleteUnusedOtps(otps, req.email)
               /\ inflight' = [inflight EXCEPT ![w] =
                     Frame("register", "deleted", req.email, "", NoOtp, RegistrationData(req))]
               /\ UNCHANGED <<users, nextOtp, documents, ocrDatas, logs, last, proven, refreshTokens, ocrCall>>
     /\ UNCHANGED <<now, tokens>>

\* resendOtp up to and including otp.findFirst; without a pending registration
\* the rest of the handler follows at once
ResendBegin(w, email) ==
  LET pendingId == FindFirstUnusedOtp(otps, email, NoUser, "email_verification")
      pending == OtpById(otps, pendingId)
  IN /\ inflight[w] = Idle
     /\ IF pendingId # 0 /\ pending.metadata # NoMetadata
          THEN /\ inflight' = [inflight EXCEPT ![w] =
                     Frame("resend-otp", "found", email, "", pending, pending.metadata)]
               /\ UNCHANGED <<users, otps, nextOtp, documents, ocrDatas, logs, last, proven, refreshTokens, ocrCall>>
          ELSE /\ Complete(resendOtp(DB, now, email, "111111", "none"))
               /\ UNCHANGED inflight
     /\ UNCHANGED <<now, tokens>>

\* resendOtp: otp.deleteMany
ResendDelete(w) ==
  /\ inflight[w].op = "resend-otp" /\ inflight[w].pc = "found"
  /\ otps' = DeleteUnusedOtps(otps, inflight[w].email)
  /\ inflight' = [inflight EXCEPT ![w].pc = "deleted"]
  /\ UNCHANGED <<users, nextOtp, documents, ocrDatas, logs, now, tokens, last, proven, refreshTokens, ocrCall>>

\* register and resendOtp: createOtpForUser with the payload, sendEmail, response
IssueOtp(w, code) ==
  LET f == inflight[w]
      created == createOtpForUser(otps, nextOtp, now, code, NoUser, "email_verification",
                                  f.email, f.metadata)
      resp == IF f.op = "register"
              THEN Response("register", 201,
                            "Registration initiated. Please verify your email.",
                            f.email, "", NoUser)
              ELSE Response("resend-otp", 200, "OTP sent successfully", f.email, "", NoUser)
  IN /\ f.op \in {"register", "resend-otp"} /\ f.pc = "deleted"
     /\ Complete(Outcome([DB EXCEPT !.otps = created, !.nextOtp = @ + 1], resp))
     /\ inflight' = [inflight EXCEPT ![w] = Idle]
     /\ UNCHANGED <<now, tokens>>

\* verifyOtpController up to and including otp.findFirst of verifyOtp
VerifyBegin(w, email, otp) ==
  LET id == FindFirstUnusedOtp(otps, email, NoUser, "email_verification")
  IN /\ inflight[w] = Idle
     /\ inflight' = [inflight EXCEPT ![w] =
           Frame("verify-otp", "found", email, otp,
                 IF id = 0 THEN NoOtp ELSE OtpById(otps, id), NoMetadata)]
     /\ UNCHANGED <<users, otps, nextOtp, documents, ocrDatas, logs, now, tokens, last, proven, refreshTokens, ocrCall>>

\* verifyOtp's checks on the row it read and its otp.update, which throws when
\* the row is gone
VerifyMark(w) ==
  LET f == inflight[w]
      resp(status, message) == Response("verify-otp", status, message, f.email, f.otp, NoUser)
      accepted == f.rec # NoOtp /\ ~(now > f.rec.expiresAt) /\ f.rec.otpHash = f.otp
  IN /\ f.op = "verify-otp" /\ f.pc = "found"
     /\ IF ~accepted
          THEN /\ Complete(Outcome(DB, resp(400, "Invalid or expired OTP")))
               /\ inflight' = [inflight EXCEPT ![w] = Idle]
        ELSE IF \A o \in otps : o.id # f.rec.id
          THEN /\ Complete(Outcome(DB, resp(500, "Verification failed")))
               /\ inflight' = [inflight EXCEPT ![w] = Idle]
        ELSE /\ otps' = MarkOtpUsed(otps, f.rec.id)
             /\ inflight' = [inflight EXCEPT ![w].pc = "verified"]
             /\ UNCHANGED <<users, nextOtp, documents, ocrDatas, logs, last, proven, refreshTokens, ocrCall>>
     /\ UNCHANGED <<now, tokens>>

\* verifyOtpController after verifyOtp has returned the record
VerifyFinish(w, ocr) ==
  LET f == inflight[w]
  IN /\ f.op = "verify-otp" /\ f.pc = "verified"
     /\ Complete(confirmVerified(DB, f.rec, f.email, f.otp, ocr, "none"))
     /\ inflight' = [inflight EXCEPT ![w] = Idle]
     /\ UNCHANGED <<now, tokens>>

\* ------------------------------------------------------------- Spec:
\* the registration pipeline (submit, confirm, resend), one request at a time
RegisterFaults == {"upload", "deleteMany", "otpCreate"}
ResendFaults == {"none", "deleteMany", "otpCreate"}
ConfirmFaults == {"none", "userCreate", "ocr", "activityLog"}

\* the (request, generated code, fault) triples of the register requests
RegisterInputs ==
  {<<req, code, "none">> : req \in ValidRequests({UserRole.INDIVIDUAL, UserRole.WAREHOUSE}, {NoCnic}),
                                code \in Codes}
  \cup {<<Request(e, UserRole.WAREHOUSE, TRUE, NoCnic, FilesFor(UserRole.WAREHOUSE)),
          "111111", fault>> : e \in Emails, fault \in RegisterFaults}
  \cup {<<req, "111111", "none">> : req \in InvalidRequests}

InBounds == Bounded(MaxUsers, MaxOtps, MaxLogs)

Next ==
  \/ \E in \in RegisterInputs : Register(in[1], in[2], in[3]) /\ InBounds
  \/ \E email \in Emails, otp \in Codes, fault \in ConfirmFaults,
        ocr \in OcrInputs({CnicSpacedA}, {NtnText}) :
        VerifyOtp(email, otp, ocr, fault) /\ InBounds
  \/ \E email \in Emails, code \in Codes, fault \in ResendFaults :
        ResendOtp(email, code, fault) /\ InBounds
  \/ Tick

Spec == Init /\ [][Next]_vars


\* ------------------------------------------------------------- SpecAccount:
\* an account's own requests after registration: login and profile update
Credentials ==
  {<<"a@x.pk", UserPassword>>, <<"b@x.pk", UserPassword>>, <<"a@x.pk", OtherPassword>>,
   <<AdminEmail, AdminPassword>>}

NextAccount ==
  \/ \E email \in Emails :
        Register(Request(email, UserRole.INDIVIDUAL, TRUE, NoCnic, {}), "111111", "none")
        /\ InBounds
  \/ \E email \in Emails, otp \in Codes, ocr \in OcrInputs({EmptyText}, {EmptyText}) :
        VerifyOtp(email, otp, ocr, "none") /\ InBounds
  \/ \E cred \in Credentials : Login(cred[1], cred[2], "none") /\ InBounds
  \/ \E uid \in UserIds(users), email \in Emails \cup {NullStr},
        password \in {NullStr, OtherPassword}, fault \in {"none", "userUpdate"} :
        UpdateProfile(uid, email, password, fault) /\ InBounds
  \/ Tick

SpecAccount == Init /\ [][NextAccount]_vars

\* ------------------------------------------------------------- SpecReset:
\* forgotten and reset passwords of the seeded admin and of one registered account
MaxResetOtps == 3    \* codes ever issued under SpecReset
MaxResetLogs == 4    \* rows of the ActivityLog table under SpecReset

InResetBounds == Bounded(MaxUsers, MaxResetOtps, MaxResetLogs)

NextReset ==
  \/ Register(Request("a@x.pk", UserRole.INDIVIDUAL, TRUE, NoCnic, {}), "111111", "none")
        /\ InResetBounds
  \/ \E ocr \in OcrInputs({EmptyText}, {EmptyText}) :
        VerifyOtp("a@x.pk", "111111", ocr, "none") /\ InResetBounds
  \/ \E email \in {"a@x.pk", AdminEmail}, code \in Codes,
        fault \in {"none", "otpCreate", "activityLog"} :
        ForgotPassword(email, code, fault) /\ InResetBounds
  \/ \E email \in {"a@x.pk", "b@x.pk", AdminEmail}, otp \in Codes,
        fault \in {"none", "userUpdate", "activityLog"} :
        ResetPassword(email, otp, OtherPassword, fault) /\ InResetBounds
  \/ Tick

SpecReset == Init /\ [][NextReset]_vars

\* ------------------------------------------------------------- SpecKyc:
\* registration followed by KYC evaluation, role upgrade and the admin's decisions
MaxKycUsers == 2     \* registered rows of the User table under SpecKyc
MaxKycOtps == 2      \* codes ever issued under SpecKyc
MaxKycLogs == 3      \* rows of the ActivityLog table under SpecKyc

InKycBounds == Bounded(MaxKycUsers, MaxKycOtps, MaxKycLogs)

KycInput(files, front, back, ntn) ==
  [files |-> files, front |-> front, back |-> back, ntn |-> ntn]

KycInputs ==
  {KycInput({"frontCnic", "backCnic", "ntn"}, CnicSpacedA, EmptyText, NtnText),
   KycInput({"frontCnic", "backCnic"}, BlurredText, EmptyText, EmptyText),
   KycInput({"frontCnic"}, CnicSpacedA, EmptyText, EmptyText)}

UpgradeRequest(requestedRole, address, files, front, ntn) ==
  [requestedRole |-> requestedRole, name |-> TRUE, address |-> address, files |-> files,
   front |-> front, back |-> EmptyText, ntn |-> ntn]

UpgradeRequests ==
  {UpgradeRequest(UserRole.COMPANY, TRUE, {"ntn", "registration", "utility"},
                  EmptyText, NtnText),
   UpgradeRequest(UserRole.COMPANY, FALSE, {"ntn", "registration", "utility"},
                  EmptyText, NtnText),
   UpgradeRequest(UserRole.WAREHOUSE, TRUE, {"cnicFront", "cnicBack", "utility"},
                  CnicSpacedA, EmptyText),
   UpgradeRequest(UserRole.WAREHOUSE, TRUE, {"cnicFront", "cnicBack", "utility"},
                  BlurredText, EmptyText)}

\* the register requests: two warehouses that may type their CNIC into the form,
\* one with hyphens and one without, and an individual
KycRegistrations ==
  {Request("a@x.pk", UserRole.WAREHOUSE, TRUE, c, FilesFor(UserRole.WAREHOUSE)) :
     c \in {NoCnic, CnicHyphenA}}
  \cup {Request("b@x.pk", UserRole.WAREHOUSE, TRUE, c, FilesFor(UserRole.WAREHOUSE)) :
          c \in {NoCnic, CnicPlainA}}
  \cup {Request("b@x.pk", UserRole.INDIVIDUAL, TRUE, NoCnic, {})}

Registered == UserIds(users) \ {1}

NextKyc ==
  \/ \E req \in KycRegistrations : Register(req, "111111", "none") /\ InKycBounds
  \/ \E email \in Emails, ocr \in OcrInputs({CnicSpacedA}, {NtnText}) :
        VerifyOtp(email, "111111", ocr, "none") /\ InKycBounds
  \/ \E cred \in Credentials : Login(cred[1], cred[2], "none") /\ InKycBounds
  \/ \E uid \in UserIds(users), in \in KycInputs :
        KycRegister(uid, in, "none") /\ InKycBounds
  \/ \E uid \in UserIds(users), req \in UpgradeRequests :
        RequestRoleUpgrade(uid, req, "none") /\ InKycBounds
  \/ \E uid \in UserIds(users), userId \in Registered :
        ApproveKyc(uid, userId) /\ InKycBounds
  \/ \E uid \in UserIds(users), userId \in Registered :
        RejectKyc(uid, userId, NullStr) /\ InKycBounds
  \/ \E uid \in UserIds(users), id \in Registered, suspended \in BOOLEAN :
        SuspendUser(uid, id, suspended) /\ InKycBounds
  \/ \E uid \in UserIds(users), userId \in Registered :
        ApproveKYC(uid, userId, "none") /\ InKycBounds
  \/ \E uid \in UserIds(users), userId \in Registered :
        RejectKYC(uid, userId, "Documents unreadable", "none") /\ InKycBounds

SpecKyc == Init /\ [][NextKyc]_vars

\* ------------------------------------------------------------- SpecConc:
\* the registration pipeline with overlapping requests
MaxConcOtps == 2     \* codes ever issued under SpecConc

InConcBounds == Bounded(MaxUsers, MaxConcOtps, MaxLogs)

\* overlapping requests of one registrant
ConcEmails == {"a@x.pk"}

ConcRequests ==
  {Request(e, r, TRUE, NoCnic, FilesFor(r)) :
     e \in ConcEmails, r \in {UserRole.INDIVIDUAL, UserRole.WAREHOUSE}}
  \cup {Request("a@x.pk", UserRole.WAREHOUSE, TRUE, NoCnic, {"profileImage"})}

NextConc ==
  \/ \E w \in Workers, req \in ConcRequests : RegisterBegin(w, req) /\ InConcBounds
  \/ \E w \in Workers, email \in ConcEmails : ResendBegin(w, email) /\ InConcBounds
  \/ \E w \in Workers : ResendDelete(w) /\ InConcBounds
  \/ \E w \in Workers, code \in Codes : IssueOtp(w, code) /\ InConcBounds
  \/ \E w \in Workers, email \in ConcEmails, otp \in Codes :
        VerifyBegin(w, email, otp) /\ InConcBounds
  \/ \E w \in Workers : VerifyMark(w) /\ InConcBounds
  \/ \E w \in Workers, ocr \in OcrInputs({CnicSpacedA}, {NtnText}) :
        VerifyFinish(w, ocr) /\ InConcBounds
  \/ Tick

SpecConc == Init /\ [][NextConc]_vars


\* ------------------------------------------------------------- SpecCollector:
\* a warehouse registers and adds a collector id; the collector registers, is
\* approved, logs in, gives the account an email and asks for a verification code
MaxCollectorUsers == 2
MaxCollectorOtps == 2
MaxCollectorLogs == 8
InCollectorBounds == Bounded(MaxCollectorUsers, MaxCollectorOtps, MaxCollectorLogs)

CollectorId == "COL-1000"

CollectorCredentials ==
  {<<"a@x.pk", UserPassword>>, <<AdminEmail, AdminPassword>>, <<CollectorId, OtherPassword>>}

\* the credentials of the clients that hold no token: a client logs in once
SignedOut(creds) ==
  {cred \in creds : FindUserByIdentifier(users, cred[1]) \notin tokens}

\* the accounts awaiting the admin's decision
PendingAccounts ==
  {i \in Registered : users[i].verificationStatus = VerificationStatus.PENDING}

NextCollector ==
  \/ Register(Request("a@x.pk", UserRole.WAREHOUSE, TRUE, NoCnic, FilesFor(UserRole.WAREHOUSE)),
              "111111", "none") /\ InCollectorBounds
  \/ \E email \in Emails, otp \in Codes, ocr \in OcrInputs({CnicSpacedA}, {NtnText}) :
        VerifyOtp(email, otp, ocr, "none") /\ InCollectorBounds
  \/ \E cred \in SignedOut(CollectorCredentials) :
        Login(cred[1], cred[2], "none") /\ InCollectorBounds
  \/ \E uid \in UserIds(users) : AddCollector(uid, CollectorId) /\ InCollectorBounds
  \/ RegisterCollector(CollectorId, OtherPassword, "none") /\ InCollectorBounds
  \/ \E uid \in UserIds(users), userId \in PendingAccounts :
        ApproveKYC(uid, userId, "none") /\ InCollectorBounds
  \/ \E uid \in Registered : UpdateProfile(uid, "b@x.pk", NullStr, "none") /\ InCollectorBounds
  \/ \E email \in Emails : ResendOtp(email, "222222", "none") /\ InCollectorBounds

SpecCollector == Init /\ [][NextCollector]_vars


\* ------------------------------------------------------------- SpecRetention:
\* the registration pipeline over days: a staged registration is left alone for
\* the retention window and then confirmed or resent
RETENTION_MINUTES == 24 * 60
MaxRetentionDays == 2
MaxRetentionOtps == 3
MaxRetentionLogs == 1
InRetentionBounds == Bounded(MaxUsers, MaxRetentionOtps, MaxRetentionLogs)

NextRetention ==
  \/ \E email \in Emails, code \in Codes :
        Register(Request(email, UserRole.INDIVIDUAL, TRUE, NoCnic, {}), code, "none")
        /\ InRetentionBounds
  \/ \E email \in Emails, otp \in Codes, ocr \in OcrInputs({EmptyText}, {EmptyText}) :
        VerifyOtp(email, otp, ocr, "none") /\ InRetentionBounds
  \/ \E email \in Emails, code \in Codes :
        ResendOtp(email, code, "none") /\ InRetentionBounds
  \/ Elapse(TickStep, OTP_TTL_MINUTES)
  \/ Elapse(RETENTION_MINUTES, MaxRetentionDays * RETENTION_MINUTES)

SpecRetention == Init /\ [][NextRetention]_vars


\* ------------------------------------------------------------- SpecOcr:
\* business registrations confirmed under every outcome of the OCR pass: text
\* with the number, unreadable text, empty text (both backends failed), and a
\* failure while an OCR result is saved
MaxOcrUsers == 2
MaxOcrOtps == 2
MaxOcrLogs == 2
InOcrBounds == Bounded(MaxOcrUsers, MaxOcrOtps, MaxOcrLogs)

OcrOutcomes == OcrInputs({CnicSpacedA, BlurredText, EmptyText}, {NtnText, EmptyText})
OcrFaults == {"none", "ocr"}

NextOcr ==
  \/ \E req \in ValidRequests(BusinessRoles, {NoCnic}), code \in Codes :
        Register(req, code, "none") /\ InOcrBounds
  \/ \E email \in Emails, otp \in Codes, ocr \in OcrOutcomes, fault \in OcrFaults :
        VerifyOtp(email, otp, ocr, fault) /\ InOcrBounds

SpecOcr == Init /\ [][NextOcr]_vars


\* ------------------------------------------------------------- SpecOcrService:
\* the functions of ocrService called on their own
MaxOcrTexts == 6

\* texts a backend may answer with: numbers, padded with whitespace or not,
\* unreadable text and the empty text
OcrTexts ==
  LET all == <<CnicHyphenA, <<" ">> \o CnicSpacedA \o <<" ", " ">>, <<" ">> \o NtnText,
               BlurredText \o <<" ">>, EmptyText, <<" ", " ">>, CnicPlainA, NtnText>>
  IN {all[k] : k \in 1..MaxOcrTexts}

PrimaryOutcomes == {Backend("text", t) : t \in OcrTexts} \cup {Backend("throws", <<>>)}
SecondaryOutcomes ==
  {Backend("text", t) : t \in OcrTexts} \cup {Backend("throws", <<>>), Backend("null", <<>>)}

\* the digits of the identity numbers written in the texts
CnicDigits == {StripNonDigits(CnicHyphenA), StripNonDigits(CnicHyphenB)}

\* a 13-digit number written with hyphens, with spaces and with no separator
Written(digits) ==
  {FormatCnic(digits),
   SubSeq(digits, 1, 5) \o <<" ">> \o SubSeq(digits, 6, 12) \o <<" ">> \o SubSeq(digits, 13, 13),
   digits}

\* what surrounds the number in a text
Paddings == {<<>>, <<" ">>, <<"N", " ">>}

CnicTexts ==
  {pre \o w \o suf : pre \in Paddings, suf \in {<<>>, <<" ", "x">>},
                     w \in UNION {Written(d) : d \in CnicDigits}}
  \cup {BlurredText, EmptyText, NtnText}

NextOcrService ==
  \/ \E url \in BOOLEAN, primary \in PrimaryOutcomes, secondary \in SecondaryOutcomes :
        ExtractTextFromUrl(url, primary, secondary)
  \/ \E text \in CnicTexts : ExtractCNIC(text)

SpecOcrService == Init /\ [][NextOcrService]_vars


\* ------------------------------------------------------------- SpecTokens:
\* sessions: login, refresh, logout and the password changes that revoke
MaxTokenUsers == 1      \* registered rows of the User table under SpecTokens
MaxTokenOtps == 2       \* codes ever issued under SpecTokens
MaxTokenLogs == 4       \* rows of the ActivityLog table under SpecTokens
MaxRefreshTokens == 3   \* rows of the RefreshToken table under SpecTokens

InTokenBounds ==
  /\ Bounded(MaxTokenUsers, MaxTokenOtps, MaxTokenLogs)
  /\ Cardinality(refreshTokens') <= MaxRefreshTokens

TokenCredentials ==
  {<<"a@x.pk", UserPassword>>, <<"a@x.pk", OtherPassword>>, <<AdminEmail, AdminPassword>>}

\* the refresh tokens clients may present: every token ever issued, and a forged
\* one
PresentedTokens ==
  {SignedRefreshToken(r) : r \in refreshTokens} \cup {ForgedRefreshToken(1)}

NextTokens ==
  \/ Register(Request("a@x.pk", UserRole.INDIVIDUAL, TRUE, NoCnic, {}), "111111", "none")
     /\ InTokenBounds
  \/ \E ocr \in OcrInputs({EmptyText}, {EmptyText}) :
        VerifyOtp("a@x.pk", "111111", ocr, "none") /\ InTokenBounds
  \/ \E cred \in TokenCredentials : Login(cred[1], cred[2], "none") /\ InTokenBounds
  \/ \E token \in PresentedTokens : RefreshToken(token) /\ InTokenBounds
  \/ \E uid \in UserIds(users) : Logout(uid) /\ InTokenBounds
  \/ \E uid \in UserIds(users), current \in {UserPassword, OtherPassword} :
        ChangePassword(uid, current, OtherPassword) /\ InTokenBounds
  \/ ForgotPassword("a@x.pk", "222222", "none") /\ InTokenBounds
  \/ ResetPassword("a@x.pk", "222222", OtherPassword, "none") /\ InTokenBounds

SpecTokens == Init /\ [][NextTokens]_vars


\* ------------------------------------------------------------- claims
\* the last request was a verify-otp that materialized an account
ConfirmedLast ==
  /\ last.op = "verify-otp"
  /\ last.status = 200
  /\ last.userId = Len(users)

\* C1: a verify-otp request that repeats the body of the verify-otp request just
\* before it, which materialized the account, fails with "Invalid or expired
\* OTP" and creates nothing: the email still has exactly one account.
C1_ExactlyOnceConfirmation ==
  [][(/\ ConfirmedLast
      /\ \E ocr \in OcrInputs({CnicSpacedA}, {NtnText}), fault \in ConfirmFaults :
           VerifyOtp(last.email, last.otp, ocr, fault))
     => /\ last'.status = 400
        /\ last'.message = "Invalid or expired OTP"
        /\ users' = users
        /\ Cardinality({i \in UserIds(users') : users'[i].email = last.email}) = 1]_vars

\* C1 witness: the repeated verify-otp has been refused, the account of the first
\* one exists and its code is marked used
C1_Witness ==
  /\ last.op = "verify-otp"
  /\ last.message = "Invalid or expired OTP"
  /\ FindUserByEmail(users, last.email) # NoUser
  /\ \E o \in otps : o.used /\ o.email = last.email /\ o.otpHash = last.otp
                     /\ o.metadata.email = last.email

\* an identity number in normalized form: separators ignored
NormalizedCnic(cnic) == StripNonDigits(cnic)

\* C2: any two distinct accounts have different emails when both have one, and
\* different identity numbers, compared in normalized form, when both have one.
C2_UniqueEmailAndIdentityNumber ==
  \A i, j \in UserIds(users) :
    i # j =>
      /\ (users[i].email # NullStr /\ users[j].email # NullStr
           => users[i].email # users[j].email)
      /\ (users[i].cnic # NoCnic /\ users[j].cnic # NoCnic
           => NormalizedCnic(users[i].cnic) # NormalizedCnic(users[j].cnic))

\* C3: of the overlapping verify-otp requests, at most one has had verifyOtp
\* return (consume) a given code; no two requests hold the same returned record.
C3_OneVerifyConsumesCode ==
  \A v, w \in Workers :
    (/\ v # w
     /\ inflight[v].op = "verify-otp" /\ inflight[v].pc = "verified"
     /\ inflight[w].op = "verify-otp" /\ inflight[w].pc = "verified")
    => inflight[v].rec.id # inflight[w].rec.id

\* two Otp rows of the same (scope, purpose) pair
SameScopeAndPurpose(o, n) ==
  o.purpose = n.purpose /\ o.email = n.email /\ o.userId = n.userId

\* C4: an unused code for which the table holds a newer code of the same (scope,
\* purpose) pair, used or not, is not accepted by verifyOtp: no step marks it used.
C4_SupersededCodeNeverAccepted ==
  [][\A o \in otps :
       (/\ ~o.used
        /\ \E n \in otps : n.id > o.id /\ SameScopeAndPurpose(o, n))
       => \A o2 \in otps' : o2.id = o.id => ~o2.used]_vars

\* the last request was a KYC evaluation that reached a decision: approved, or
\* rejected with the reason now stored on the account
KycDecidedLast ==
  /\ last.op = "kyc-register"
  /\ \/ last.status = 200
     \/ last.status = 400 /\ last.message = users[last.userId].rejectionReason

\* C5: a KYC evaluation that repeats, for the same account and the same upload,
\* the evaluation just before it gets the same answer and leaves the account with
\* the same status, stage and rejection reason.
C5_KycEvaluationIdempotent ==
  [][(KycDecidedLast /\ KycRegister(last.userId, last.kyc, "none"))
     => /\ last'.status = last.status
        /\ last'.message = last.message
        /\ users'[last.userId].verificationStatus = users[last.userId].verificationStatus
        /\ users'[last.userId].kycStage = users[last.userId].kycStage
        /\ users'[last.userId].rejectionReason = users[last.userId].rejectionReason]_vars

\* C6: a KYC evaluation that extracts an identity number carried by another
\* account leaves the evaluated account REJECTED with the already-registered
\* reason stored, and is answered 400.
C6_DuplicateIdentityRejected ==
  [][\A uid \in UserIds(users), in \in KycInputs :
       (/\ KycRegister(uid, in, "none")
        /\ users[uid].role \in KycRoles
        /\ {"frontCnic", "backCnic"} \subseteq in.files
        /\ extractCNICFrontOrBack(in.front, in.back) # NoCnic
        /\ \E j \in UserIds(users) \ {uid} :
              users[j].cnic = extractCNICFrontOrBack(in.front, in.back))
       => /\ users'[uid].verificationStatus = VerificationStatus.REJECTED
          /\ users'[uid].rejectionReason =
               "This CNIC is already registered with another business account."
          /\ last'.status = 400]_vars

\* C7: after a verify-otp request has materialized a warehouse account, every
\* well-formed CNIC that the OCR pass extracted from its CNIC document and that
\* no other account carries is the account's cnic, and the account is VERIFIED.
C7_ConfirmBindsExtractedCnic ==
  (ConfirmedLast /\ users[last.userId].role = UserRole.WAREHOUSE)
  => \A k \in 1..Len(ocrDatas) :
       (/\ ocrDatas[k].userId = last.userId
        /\ ocrDatas[k].docType = "CNIC"
        /\ validateCnicFormat(ocrDatas[k].cnic)
        /\ FindUserByCnic(SubSeq(users, 1, last.userId - 1), ocrDatas[k].cnic) = NoUser)
       => /\ users[last.userId].verificationStatus = VerificationStatus.VERIFIED
          /\ users[last.userId].cnic = ocrDatas[k].cnic

\* C8: every account that registered itself (neither the seeded admin nor a
\* collector placeholder) carries an email that a successful verify-otp request
\* has proven.
C8_AccountEmailProven ==
  \A i \in UserIds(users) :
    (/\ users[i].role \notin {UserRole.ADMIN, UserRole.COLLECTOR}
     /\ users[i].email # NullStr)
    => users[i].email \in proven

\* the unused, unexpired email_verification codes of an email
LiveEmailCodes(email) ==
  {o \in otps : /\ o.email = email /\ o.purpose = "email_verification"
                /\ ~o.used /\ ~(now > o.expiresAt)}

\* C9: whatever register and resend-otp requests have run or are running for an
\* email, at most one unused, unexpired email_verification code exists for it.
C9_OneLiveCodePerEmail ==
  \A email \in Emails : Cardinality(LiveEmailCodes(email)) <= 1

\* the staged registrations: the unused codes that carry a registration payload
StagedRegistrations(os) == {o \in os : ~o.used /\ o.metadata # NoMetadata}

\* C10: a register (submit), verify-otp (confirm) or upgrade-role request that is
\* answered with an error status leaves the staged registrations, the accounts,
\* the documents and the audit entries as they were before the request.
C10_FailureLeavesNoPartialRecord ==
  [][(/\ last'.op \in {"register", "verify-otp", "upgrade-role"}
      /\ last'.status >= 400)
     => /\ StagedRegistrations(otps') = StagedRegistrations(otps)
        /\ users' = users
        /\ documents' = documents
        /\ logs' = logs]_vars

\* the record verifyOtp matches for an email: its newest unused
\* email_verification code (id 0 for none)
MatchedRecord(email) ==
  OtpById(otps, FindFirstUnusedOtp(otps, email, NoUser, "email_verification"))

\* the record verifyOtp matches for the email has expired and carries the code
ExpiredButCorrect(email, otp) ==
  /\ FindFirstUnusedOtp(otps, email, NoUser, "email_verification") # 0
  /\ now > MatchedRecord(email).expiresAt
  /\ MatchedRecord(email).otpHash = otp

\* C11: a verify-otp request made after the expiry timestamp of the record it
\* matches, presenting that record's code, is refused with 400 and leaves the
\* Otp table (the record still unused) and the accounts as they were.
C11_ExpiredCodeRefused ==
  [][\A email \in Emails, otp \in Codes :
       ExpiredButCorrect(email, otp)
       => \A fault \in ConfirmFaults, ocr \in OcrInputs({CnicSpacedA}, {NtnText}) :
            VerifyOtp(email, otp, ocr, fault)
            => /\ last'.status = 400
               /\ last'.message = "Invalid or expired OTP"
               /\ otps' = otps
               /\ users' = users]_vars

\* C11 witness: the last verify-otp presented the code of an expired record and
\* was refused; the record is still the unused one matched for the email
C11_Witness ==
  /\ last.op = "verify-otp"
  /\ last.status = 400
  /\ ExpiredButCorrect(last.email, last.otp)
  /\ ~MatchedRecord(last.email).used

\* the accounts that have an email which is not verified
UnverifiedAccounts ==
  {i \in UserIds(users) : users[i].email # NullStr /\ ~users[i].emailVerified}

\* the last request was a resend-otp that issued `code` to the account uid
ResentTo(uid, code) ==
  /\ last.op = "resend-otp"
  /\ last.status = 200
  /\ \E o \in otps : /\ o.id = nextOtp - 1
                     /\ o.userId = uid
                     /\ o.purpose = "email_verification"
                     /\ o.otpHash = code
                     /\ ~o.used
                     /\ ~(now > o.expiresAt)

\* C12: after a resend-otp request has issued a code to an account whose email
\* is not verified, a verify-otp request with the account's email and that code
\* succeeds, sets the account's emailVerified and appends an EMAIL_VERIFIED
\* audit entry.
C12_ResentCodeVerifiesAccount ==
  [][\A uid \in UnverifiedAccounts, code \in Codes :
       ResentTo(uid, code)
       => \A ocr \in OcrInputs({CnicSpacedA}, {NtnText}) :
            VerifyOtp(users[uid].email, code, ocr, "none")
            => /\ last'.status = 200
               /\ users'[uid].emailVerified
               /\ logs' = Append(logs, LogRow(uid, users[uid].role, "EMAIL_VERIFIED"))]_vars

\* the email has a staged registration: the record verifyOtp matches for it
\* carries a registration payload
Staged(email) ==
  /\ FindFirstUnusedOtp(otps, email, NoUser, "email_verification") # 0
  /\ MatchedRecord(email).metadata # NoMetadata

\* the last request was a resend-otp that issued the unexpired staged record r
ResentStaged(r) ==
  /\ last.op = "resend-otp"
  /\ last.status = 200
  /\ r.id = nextOtp - 1
  /\ r.metadata # NoMetadata
  /\ ~r.used
  /\ ~(now > r.expiresAt)

\* C13: a resend-otp request for an email with a staged registration leaves the
\* email with one unused code, the new one, carrying the staged payload; after
\* it, a verify-otp request with any other code is refused and creates nothing,
\* and one with the new code creates the account and the documents of the
\* staged payload.
C13_ResendKeepsStagedPayload ==
  [][/\ \A email \in Emails, code \in Codes :
          (Staged(email) /\ ResendOtp(email, code, "none"))
          => /\ last'.status = 200
             /\ \E r \in otps' :
                  /\ UnusedOtps(otps', email, NoUser, "email_verification") = {r}
                  /\ r.id # MatchedRecord(email).id
                  /\ r.otpHash = code
                  /\ r.metadata = MatchedRecord(email).metadata
     /\ \A r \in otps :
          ResentStaged(r)
          => \A otp \in Codes, ocr \in OcrInputs({CnicSpacedA}, {NtnText}) :
               VerifyOtp(r.email, otp, ocr, "none")
               => IF otp = r.otpHash
                    THEN /\ last'.status = 200
                         /\ Len(users') = Len(users) + 1
                         /\ users'[Len(users')].email = r.metadata.email
                         /\ users'[Len(users')].password = r.metadata.password
                         /\ users'[Len(users')].role = r.metadata.role
                         /\ users'[Len(users')].cnic = r.metadata.cnic
                         /\ documents' = documents
                               \o DocumentRows(Len(users'), r.metadata.documents)
                    ELSE /\ last'.status = 400
                         /\ users' = users]_vars

\* C13 witness: a resend-otp has just replaced the code of a staged registration;
\* the new record is the only unused code of its email
C13_Witness ==
  \E r \in otps :
    /\ ResentStaged(r)
    /\ r.id > 1
    /\ r.metadata.email = r.email
    /\ UnusedOtps(otps, r.email, NoUser, "email_verification") = {r}

\* the time an Otp row was created at
CreatedAt(o) == o.expiresAt - OTP_TTL_MINUTES

\* the retention window has passed since every code of the email was created,
\* hence since the latest register request for it
RetentionElapsed(email) ==
  \A o \in otps : o.email = email => now >= CreatedAt(o) + RETENTION_MINUTES

\* C14: once 24 hours have passed since the latest register request of an email
\* whose registration is still staged, neither a verify-otp nor a resend-otp
\* request for the email succeeds.
C14_StagedDiscardedAfterRetention ==
  [][\A email \in Emails :
       (Staged(email) /\ RetentionElapsed(email))
       => \A code \in Codes :
            /\ ResendOtp(email, code, "none") => last'.status >= 400
            /\ \A ocr \in OcrInputs({EmptyText}, {EmptyText}) :
                 VerifyOtp(email, code, ocr, "none") => last'.status >= 400]_vars

\* the role changes an upgrade may make
ValidTransitions ==
  {<<UserRole.INDIVIDUAL, UserRole.WAREHOUSE>>, <<UserRole.INDIVIDUAL, UserRole.COMPANY>>,
   <<UserRole.WAREHOUSE, UserRole.COMPANY>>}

\* C15: an upgrade-role request changes the account's role only to the
\* requested role and only along individual->warehouse, individual->company or
\* warehouse->company; a request with any other (current role, requested role)
\* pair is answered 400 and leaves the role as it was.
C15_RoleChangesAlongValidTransitions ==
  [][\A uid \in UserIds(users), req \in UpgradeRequests :
       (/\ last'.op = "upgrade-role"
        /\ last'.userId = uid
        /\ RequestRoleUpgrade(uid, req, "none"))
       => /\ users'[uid].role # users[uid].role
             => /\ <<users[uid].role, users'[uid].role>> \in ValidTransitions
                /\ users'[uid].role = req.requestedRole
          /\ <<users[uid].role, req.requestedRole>> \notin ValidTransitions
             => /\ last'.status = 400
                /\ users'[uid].role = users[uid].role]_vars

\* C15 witness: an upgrade has been approved earlier and the last upgrade-role
\* request, for a pair outside the valid transitions, was refused
C15_Witness ==
  /\ last.op = "upgrade-role"
  /\ last.status = 400
  /\ last.message = "Invalid role transition"
  /\ users[last.userId].role \in {UserRole.WAREHOUSE, UserRole.COMPANY}
  /\ \E k \in 1..Len(logs) : logs[k].action = "ROLE_UPGRADE_AUTO_APPROVED"

\* the KYC upload made of the documents of an upgrade request
KycInputOf(req) ==
  [files |-> (IF "cnicFront" \in req.files THEN {"frontCnic"} ELSE {})
             \cup (IF "cnicBack" \in req.files THEN {"backCnic"} ELSE {})
             \cup (req.files \cap {"ntn"}),
   front |-> req.front, back |-> req.back, ntn |-> req.ntn]

\* C16: an upgrade-role request to role R is approved only when the KYC
\* evaluation of registerKyc, made for role R on the same documents and the same
\* accounts, decides VERIFIED: a well-formed CNIC that no account carries was
\* extracted and, for company, a valid NTN too.
C16_UpgradeApprovedOnlyIfKycVerifies ==
  [][\A uid \in UserIds(users), req \in UpgradeRequests :
       (/\ last'.op = "upgrade-role"
        /\ last'.userId = uid
        /\ last'.status = 200
        /\ RequestRoleUpgrade(uid, req, "none"))
       => KycDecision(users, req.requestedRole,
                      extractCNICFrontOrBack(req.front, req.back),
                      KycInputOf(req)).status = VerificationStatus.VERIFIED]_vars

\* the answers of requestRoleUpgrade to a request with a field or document
\* missing, or with no identity or tax number extracted
UpgradeRejections ==
  {"Address is required for upgrade", "Business Name is required",
   "CNIC Front and Back are required", "Company Name is required",
   "NTN and Registration Certificate are required",
   "Could not verify CNIC from uploaded images. Please upload clear images.",
   "Could not verify NTN from uploaded document.", "Utility Bill is required"}

\* C17: an upgrade-role request refused for a missing field or document, or
\* because OCR extracted no identity or tax number, leaves the account's role,
\* verification status, KYC stage and cnic as they were and appends no audit
\* entry.
C17_RejectedUpgradeChangesNothing ==
  [][\A uid \in UserIds(users), req \in UpgradeRequests :
       (/\ last'.op = "upgrade-role"
        /\ last'.userId = uid
        /\ last'.status = 400
        /\ last'.message \in UpgradeRejections
        /\ RequestRoleUpgrade(uid, req, "none"))
       => /\ users'[uid].role = users[uid].role
          /\ users'[uid].verificationStatus = users[uid].verificationStatus
          /\ users'[uid].kycStage = users[uid].kycStage
          /\ users'[uid].cnic = users[uid].cnic
          /\ logs' = logs]_vars

\* C17 witness: the last upgrade-role request, from an individual whose uploads
\* gave OCR no identity number, was refused
C17_Witness ==
  /\ last.op = "upgrade-role"
  /\ last.status = 400
  /\ last.message = "Could not verify CNIC from uploaded images. Please upload clear images."
  /\ users[last.userId].role = UserRole.INDIVIDUAL

\* the responses of the two admin surfaces for a manual KYC decision
ManualDecisionOps == {"admin-approve", "admin-reject", "kyc-approve", "kyc-reject"}

\* C18: every manual approval or rejection of an account's KYC that an admin
\* makes, through /api/admin/kyc/approve|reject or /api/kyc/approve|reject/:userId,
\* appends an audit entry of the admin recording the decision.
C18_ManualDecisionAudited ==
  [][\A uid \in UserIds(users), userId \in Registered :
       (/\ last'.op \in ManualDecisionOps
        /\ last'.status = 200
        /\ \/ ApproveKYC(uid, userId, "none")
           \/ RejectKYC(uid, userId, "Documents unreadable", "none")
           \/ ApproveKyc(uid, userId)
           \/ RejectKyc(uid, userId, NullStr))
       => /\ Len(logs') = Len(logs) + 1
          /\ logs'[Len(logs')].userId = uid
          /\ logs'[Len(logs')].action \in {"KYC_APPROVED", "KYC_REJECTED"}]_vars

\* C19: every account's kycStage is one of the KycStage values REGISTERED,
\* DOCUMENTS_UPLOADED and VERIFIED.
C19_KycStageInEnum ==
  \A i \in UserIds(users) :
    users[i].kycStage \in {KycStage.REGISTERED, KycStage.DOCUMENTS_UPLOADED, KycStage.VERIFIED}

\* the longest continuation of the account holder's requests that is tried
MaxResubmitSteps == 3

\* KYC uploads with valid documents: readable CNIC images and NTN certificate
ValidKycInputs ==
  {KycInput({"frontCnic", "backCnic", "ntn"}, CnicSpacedA, EmptyText, NtnText),
   KycInput({"frontCnic", "backCnic", "ntn"}, CnicHyphenB, EmptyText, NtnText)}

\* some continuation of at most n requests of the holder of account uid brings
\* the account to VERIFIED: a login with the account's credentials, which gives
\* the holder a token when it is answered "Login successful", or, for a holder
\* with a token (held), a KYC submission with valid documents
RECURSIVE CanResubmit(_, _, _, _)
CanResubmit(db, held, uid, n) ==
  \/ db.users[uid].verificationStatus = VerificationStatus.VERIFIED
  \/ /\ n > 0
     /\ \/ LET out == login(db, db.users[uid].email, db.users[uid].password, "none")
           IN CanResubmit(out.db, held \/ out.resp.message = "Login successful", uid, n - 1)
        \/ /\ held
           /\ \E in \in ValidKycInputs :
                 CanResubmit(registerKyc(db, uid, in, "none").db, held, uid, n - 1)

\* C20: whenever an account is REJECTED, some continuation made only of its
\* holder's requests (login, KYC submission with valid documents) brings it to
\* VERIFIED.
C20_RejectedCanResubmit ==
  \A uid \in Registered :
    users[uid].verificationStatus = VerificationStatus.REJECTED
    => CanResubmit(DB, uid \in tokens, uid, MaxResubmitSteps)

\* the record verifyOtp matches for the email is an unexpired staged
\* registration carrying the code, and the email has no account
ValidConfirm(email, otp) ==
  /\ Staged(email)
  /\ ~(now > MatchedRecord(email).expiresAt)
  /\ MatchedRecord(email).otpHash = otp
  /\ FindUserByEmail(users, email) = NoUser

\* C21: a verify-otp request with a valid code creates the account of the staged
\* payload with its documents, is answered 200 and appends the
\* EMAIL_VERIFIED_AND_REGISTERED entry, whatever the OCR pass does: text with or
\* without the number, empty text, or a failure while an OCR result is saved.
C21_OcrOutcomeNeverUnwindsConfirm ==
  [][\A email \in Emails, otp \in Codes :
       ValidConfirm(email, otp)
       => \A ocr \in OcrOutcomes, fault \in OcrFaults :
            VerifyOtp(email, otp, ocr, fault)
            => /\ last'.status = 200
               /\ users' = Append(users, NewUserRow(MatchedRecord(email).metadata))
               /\ documents' = documents
                     \o DocumentRows(Len(users'), MatchedRecord(email).metadata.documents)
               /\ logs' = Append(logs, LogRow(Len(users'), MatchedRecord(email).metadata.role,
                                              "EMAIL_VERIFIED_AND_REGISTERED"))]_vars

\* C21 witness: the last verify-otp created a business account with documents
\* although its OCR pass saved no result
C21_Witness ==
  /\ ConfirmedLast
  /\ DocTypesOf(documents, last.userId) # <<>>
  /\ \A k \in 1..Len(ocrDatas) : ocrDatas[k].userId # last.userId
  /\ logs[Len(logs)] = LogRow(last.userId, users[last.userId].role,
                              "EMAIL_VERIFIED_AND_REGISTERED")

\* the reason registerKyc stores when no CNIC was extracted
ExtractionFailedReason ==
  "OCR failed to extract valid CNIC from uploaded documents. Please ensure images are clear and readable."

C23_IndividualKycRefused ==
  [][\A uid \in UserIds(users), in \in KycInputs :
       (/\ last'.op = "kyc-register"
        /\ last'.userId = uid
        /\ users[uid].role = UserRole.INDIVIDUAL
        /\ KycRegister(uid, in, "none"))
       => /\ last'.status = 403
          /\ users' = users
          /\ documents' = documents
          /\ ocrDatas' = ocrDatas]_vars

\* C23 witness: the last KYC submission came from an individual and was refused
C23_Witness ==
  /\ last.op = "kyc-register"
  /\ last.status = 403
  /\ users[last.userId].role = UserRole.INDIVIDUAL
  /\ last.kyc \in KycInputs

\* C24: extractTextFromUrl never raises; when the primary backend answers it
\* returns the primary's text without calling the secondary; when the primary
\* fails it calls the secondary exactly once and returns its text; when both
\* fail it returns the empty string.
C24_ExtractTextNeverRaises ==
  (ocrCall.fn = "extractTextFromUrl" /\ ocrCall.url)
  => /\ ~ocrCall.result.raised
     /\ ocrCall.primary.kind = "text"
        => /\ ocrCall.result.text = extractTextFromUrlWithOCRSpace(ocrCall.primary).text
           /\ ocrCall.result.secondaryCalls = 0
     /\ ocrCall.primary.kind # "text"
        => /\ ocrCall.result.secondaryCalls = 1
           /\ ocrCall.secondary.kind = "text"
              => ocrCall.result.text = recognizeWithTesseract(ocrCall.secondary).text
           /\ ocrCall.secondary.kind # "text" => ocrCall.result.text = <<>>

\* C24 witness: both backends failed and the call returned the empty string
C24_Witness ==
  /\ ocrCall.fn = "extractTextFromUrl"
  /\ ocrCall.url
  /\ ocrCall.primary.kind = "throws"
  /\ ocrCall.secondary.kind \in {"throws", "null"}
  /\ ocrCall.result = Returned(<<>>, 1)

\* C25: extractCNIC returns the same canonical string DDDDD-DDDDDDD-D for a
\* 13-digit number written with hyphens, with spaces or with no separators,
\* and applied to its own output it returns that output unchanged.
C25_ExtractCnicCanonical ==
  ocrCall.fn = "extractCNIC"
  => \A digits \in CnicDigits : \A w \in Written(digits) :
       \A pre \in Paddings, suf \in {<<>>, <<" ", "x">>} :
         ocrCall.text = pre \o w \o suf
         => /\ ocrCall.cnic = FormatCnic(digits)
            /\ ocrCall.again = ocrCall.cnic

\* C25 witness: a number written with spaces inside a text was extracted in the
\* canonical form
C25_Witness ==
  /\ ocrCall.fn = "extractCNIC"
  /\ \E digits \in CnicDigits :
       /\ ocrCall.text = <<"N", " ">> \o SubSeq(digits, 1, 5) \o <<" ">> \o SubSeq(digits, 6, 12)
                         \o <<" ">> \o SubSeq(digits, 13, 13) \o <<" ", "x">>
       /\ ocrCall.cnic = FormatCnic(digits)
       /\ ocrCall.again = FormatCnic(digits)

\* the requests made between a submission and its confirmation
MaxInBetween == 1

\* the data store after one request of another registrant or account than the
\* one of `email`: a registration, a confirmation, or a KYC submission by the
\* holder of a token
OtherCalls(db, held, t, email) ==
  {register(db, t, req, "111111", "none").db :
     req \in {r \in KycRegistrations : r.email # email}}
  \cup {verifyOtpController(db, t, e, "111111", ocr, "none").db :
          e \in Emails \ {email}, ocr \in OcrInputs({CnicSpacedA}, {NtnText})}
  \cup {registerKyc(db, uid, in, "none").db :
          uid \in {u \in held \cap UserIds(db.users) : db.users[u].email # email},
          in \in KycInputs}

\* the data stores reachable by at most n such requests
RECURSIVE InBetween(_, _, _, _, _)
InBetween(db, held, t, email, n) ==
  IF n = 0 THEN {db}
  ELSE {db} \cup UNION {InBetween(d, held, t, email, n - 1) :
                          d \in OtherCalls(db, held, t, email)}

\* C26: whenever register succeeds for an email, a verify-otp with the issued
\* code, made before the code expires and with no other call for that email in
\* between, succeeds and creates the account.
C26_ConfirmAfterSubmitSucceeds ==
  [][\A req \in KycRegistrations :
       (/\ last'.op = "register" /\ last'.status = 201
        /\ Register(req, "111111", "none"))
       => \A d \in InBetween(register(DB, now, req, "111111", "none").db, tokens, now,
                             req.email, MaxInBetween) :
            \A ocr \in OcrInputs({CnicSpacedA}, {NtnText}) :
              LET out == verifyOtpController(d, now, req.email, "111111", ocr, "none")
              IN /\ out.resp.status = 200
                 /\ FindUserByEmail(out.db.users, req.email) # NoUser]_vars

\* C27: a KYC submission whose decision is REJECTED does not change the
\* account's stored cnic: it neither erases a number bound earlier nor binds
\* the newly extracted one.
C27_RejectedKycKeepsCnic ==
  [][\A uid \in UserIds(users), in \in KycInputs :
       (/\ last'.op = "kyc-register" /\ last'.userId = uid /\ last'.status = 400
        /\ KycRegister(uid, in, "none")
        /\ users'[uid].verificationStatus = VerificationStatus.REJECTED)
       => users'[uid].cnic = users[uid].cnic]_vars

\* C28: in every reachable state a warehouse or company account whose
\* verificationStatus is VERIFIED has kycStage VERIFIED; in particular
\* suspending and reactivating never makes a PENDING or REJECTED account
\* VERIFIED.
C28_VerifiedBusinessHasVerifiedStage ==
  \A uid \in Registered :
    (/\ users[uid].role \in BusinessRoles
     /\ users[uid].verificationStatus = VerificationStatus.VERIFIED)
    => users[uid].kycStage = KycStage.VERIFIED

\* C29: a non-admin account whose verificationStatus is SUSPENDED or BLOCKED
\* never receives an access or refresh token from login, whatever credentials
\* it presents.
C29_SuspendedOrBlockedGetsNoToken ==
  [][\A cred \in Credentials :
       LET uid == FindUserByIdentifier(users, cred[1])
       IN (/\ last'.op = "login"
           /\ uid # NoUser
           /\ users[uid].role # UserRole.ADMIN
           /\ users[uid].verificationStatus \in {VerificationStatus.SUSPENDED,
                                                 VerificationStatus.BLOCKED}
           /\ Login(cred[1], cred[2], "none"))
          => /\ last'.message # "Login successful"
             /\ tokens' = tokens
             /\ refreshTokens' = refreshTokens]_vars

\* the RefreshToken row stored for a presented token is revoked
Revoked(token) ==
  \E r \in refreshTokens : r.id = token.id /\ r.userId = token.userId /\ r.revoked

\* C30: after logout, change-password or reset-password has revoked an
\* account's refresh tokens, a refresh token issued before that revocation can
\* no longer be exchanged for a new access and refresh token pair.
C30_RevokedTokenNotExchanged ==
  [][\A token \in PresentedTokens :
       (/\ last'.op = "refresh"
        /\ Revoked(token)
        /\ RefreshToken(token))
       => /\ last'.message # "Token refreshed"
          /\ tokens' = tokens
          /\ refreshTokens' = refreshTokens]_vars

====
